---- MODULE Spec2Model ----
(***************************************************************************)
(* Memory-management core of dsOS: the physical page-frame allocator       *)
(* (kernel/mm/memory.c), the 4-level page-table mapper (kernel/mm/paging.c)*)
(* and the kernel heap (kernel/mm/heap.c).                                 *)
(*                                                                         *)
(* Three specifications share this module, one per component:              *)
(*   SpecMM    the frame allocator alone                                   *)
(*   SpecVM    the mapper on top of the frame allocator                    *)
(*   SpecHeap  the heap allocator                                          *)
(* In them each API call is one atomic action.  SpecMMIrq and SpecHeapIrq  *)
(* split a main-path allocation at the point where an interrupt handler    *)
(* that allocates can run, and SpecVMSteps takes map_page store by store.  *)
(***************************************************************************)
EXTENDS Integers, Sequences, FiniteSets, TLC

VARIABLES
    \* ---- memory.c ----
    page_bitmap,          \* page_bitmap[], as the set of indices of its 0 bits
    page_bitmap_entries,  \* number of 64-bit words of the bitmap
    total_pages,
    used_pages,
    mm_halt,              \* "" or "panic": a memory.c call has ended in panic()
    \* bookkeeping of the caller's view of memory.c
    outstanding,          \* frame indices handed out and not yet passed to a free
    mm_last,              \* the last memory.c call: [op, addr, n, ret, refree]
    mm_call,              \* the main path's allocation in progress: [pc, n, page, irq]
    \* ---- paging.c ----
    pt_mem,               \* the words the mapper reads and writes: entry address -> 64-bit word
    tlb,                  \* the CPU's cached translations: virtual page -> leaf entry
    vm_last,              \* the last paging.c call: [op, phys, virt, count, ret, failed]
    vm_call,              \* the map_page call in progress: [pc, physw, virt, flags, level, stale]
    \* ---- heap.c ----
    heap_start,
    heap_end,
    heap_size,
    used_space,
    free_list,
    heap_mem,             \* the words heap.c has written: address -> [lo, hi]
    heap_fill,            \* what a word heap.c has not written reads as
    heap_halt,            \* "", "hang", "wild" or "panic" (no call of heap.c ends in panic())
    \* bookkeeping of the caller's view of heap.c
    live,                 \* pointers returned and not yet passed to kfree
    heap_calls,           \* number of heap.c calls made since heap_init
    aligned_calls,        \* number of them that were kmalloc_aligned
    heap_last,            \* the last heap.c call: [op, ptr, size, alignment, ret]
    heap_call             \* the main path's kmalloc in progress: [pc, size, block, irq]

mmvars == <<page_bitmap, page_bitmap_entries, total_pages, used_pages, mm_halt,
            outstanding, mm_last, mm_call>>

vmvars == <<pt_mem, tlb, vm_last, vm_call>>

heapvars == <<heap_start, heap_end, heap_size, used_space, free_list, heap_mem,
              heap_fill, heap_halt, live, heap_calls, aligned_calls, heap_last,
              heap_call>>

vars == <<page_bitmap, page_bitmap_entries, total_pages, used_pages, mm_halt,
          outstanding, mm_last, mm_call, pt_mem, tlb, vm_last, vm_call,
          heap_start, heap_end, heap_size, used_space, free_list, heap_mem,
          heap_fill, heap_halt, live, heap_calls, aligned_calls, heap_last, heap_call>>

Min(S) == CHOOSE x \in S : \A y \in S : x <= y

(***************************************************************************)
(* Bounds of the model                                                     *)
(***************************************************************************)
\* longest run asked of mm_alloc_pages / mm_free_pages
MaxRun == 2
\* how far used_pages may fall below the number of set bits (each double
\* free lowers it by one more) before the model stops freeing free frames
MaxDrift == 1
\* frames the rest of the kernel has taken with mm_alloc_page before the
\* modelled calls start
BootAllocs == 55

(***************************************************************************)
(* memory.h / memory.c constants                                           *)
(***************************************************************************)
PAGE_SIZE == 4096
BITMAP_ENTRY_SIZE == 64
\* static uintptr_t managed_memory_start = 0x100000
managed_memory_start == 1048576
\* physical address of page_bitmap: (KERNEL_VIRTUAL_BASE + 0x400000) - KERNEL_VIRTUAL_BASE
PageBitmapPhys == 4194304
\* (size_t)-1, the "not found" index
NoIndex == -1

(***************************************************************************)
(* Boot inputs: mem_upper (KiB, the argument of mm_init) and the physical  *)
(* extent of the kernel image (_kernel_start/_kernel_end minus             *)
(* KERNEL_VIRTUAL_BASE).  The bitmap lives at the 4 MiB mark, so a machine *)
(* on which its frame exists has more than 1024 frames; the image chosen   *)
(* here fills the memory between 1 MiB and the bitmap.  total_pages = 1084 *)
(* is not a multiple of 64: the last bitmap word has tail bits 1084..1087  *)
(* that belong to no frame.                                                *)
(***************************************************************************)
BootConfigs ==
    { [mem_upper |-> 4336, kernel_start |-> 1048576, kernel_end |-> 4194304] }

\* addresses passed to mm_free_page / mm_free_pages: one below the managed
\* start, the last real frames, and the first tail bit
FreeAddrs == {PAGE_SIZE} \cup {p * PAGE_SIZE : p \in 1080..1084}

(***************************************************************************)
(* The bitmap.  page_bitmap[] is represented by the set of indices of its  *)
(* 0 bits (the words hold entries * 64 bits; every other bit is 1).        *)
(***************************************************************************)
bitmap_set(bm, index) == bm \ {index}

bitmap_clear(bm, index) == bm \cup {index}

bitmap_test(bm, index) == index \notin bm

\* first word that is not all ones, first zero bit in it
bitmap_find_free(bm, entries) ==
    LET words == { i \in 0..(entries - 1) : \E z \in bm : z \div BITMAP_ENTRY_SIZE = i }
    IN  IF words = {} THEN NoIndex
        ELSE LET i == Min(words)
                 j == Min({ z % BITMAP_ENTRY_SIZE : z \in { y \in bm : y \div BITMAP_ENTRY_SIZE = i } })
             IN  i * BITMAP_ENTRY_SIZE + j

\* The loop "for (i = 0; i < total_pages; i++)" of bitmap_find_free_contiguous
\* from index i on; start and count are the loop's variables.
RECURSIVE ContigLoop(_, _, _, _, _, _)
ContigLoop(bm, total, n, i, start, count) ==
    IF i >= total THEN NoIndex
    ELSE IF ~bitmap_test(bm, i)
         THEN LET start1 == IF count = 0 THEN i ELSE start
                  count1 == count + 1
              IN  IF count1 >= n THEN start1
                  ELSE ContigLoop(bm, total, n, i + 1, start1, count1)
         ELSE ContigLoop(bm, total, n, i + 1, start, 0)

\* The iterations over the 1 bits below the first 0 bit leave start = 0 and
\* count = 0, so the loop is entered at the first 0 bit.
bitmap_find_free_contiguous(bm, entries, total, n) ==
    IF n = 0 THEN NoIndex
    ELSE IF n = 1 THEN bitmap_find_free(bm, entries)
    ELSE IF bm = {} THEN NoIndex
    ELSE ContigLoop(bm, total, n, Min(bm), 0, 0)

(***************************************************************************)
(* mm_init: the allocator state [bitmap, entries, total, used] it leaves   *)
(***************************************************************************)
\* clears the words of the bitmap and sets the bits below managed_memory_start
setup_page_bitmap(total) ==
    LET entries == (total + BITMAP_ENTRY_SIZE - 1) \div BITMAP_ENTRY_SIZE
        low     == managed_memory_start \div PAGE_SIZE
        cleared == 0..(entries * BITMAP_ENTRY_SIZE - 1)
    IN  [bitmap |-> cleared \ 0..(low - 1), entries |-> entries,
         total |-> total, used |-> low]

mm_init(cfg) ==
    LET total_memory == cfg.mem_upper * 1024
        s0 == setup_page_bitmap(total_memory \div PAGE_SIZE)
        \* for (addr = kernel_start; addr < kernel_end; addr += PAGE_SIZE)
        nk == IF cfg.kernel_end > cfg.kernel_start
              THEN (cfg.kernel_end - cfg.kernel_start + PAGE_SIZE - 1) \div PAGE_SIZE
              ELSE 0
        kpages == { (cfg.kernel_start + j * PAGE_SIZE) \div PAGE_SIZE : j \in 0..(nk - 1) }
        \* bitmap size in pages
        bitmap_size == (s0.entries * 8 + PAGE_SIZE - 1) \div PAGE_SIZE
        bpages == { PageBitmapPhys \div PAGE_SIZE + i : i \in 0..(bitmap_size - 1) }
    IN  [bitmap |-> (s0.bitmap \ kpages) \ bpages,
         entries |-> s0.entries,
         total |-> s0.total,
         used |-> s0.used + nk + bitmap_size]

(***************************************************************************)
(* The calls of memory.c as functions of the allocator state               *)
(*   s = [bitmap, entries, total, used];  result: the new state and ret    *)
(***************************************************************************)
\* mm_alloc_page without the bitmap_set(page) of line 221
mm_alloc_page_nomark(s) ==
    LET page == bitmap_find_free(s.bitmap, s.entries)
    IN  IF page = NoIndex
        THEN [s |-> s, ret |-> 0]
        ELSE [s |-> [s EXCEPT !.used = s.used + 1], ret |-> page * PAGE_SIZE]

mm_alloc_page(s) ==
    LET page == bitmap_find_free(s.bitmap, s.entries)
    IN  IF page = NoIndex
        THEN [s |-> s, ret |-> 0]
        ELSE [s |-> [s EXCEPT !.bitmap = bitmap_set(s.bitmap, page),
                              !.used = s.used + 1],
              ret |-> page * PAGE_SIZE]

mm_alloc_pages(s, pages) ==
    LET page == bitmap_find_free_contiguous(s.bitmap, s.entries, s.total, pages)
    IN  IF page = NoIndex
        THEN [s |-> s, ret |-> 0]
        ELSE [s |-> [s EXCEPT !.bitmap = s.bitmap \ { page + i : i \in 0..(pages - 1) },
                              !.used = s.used + pages],
              ret |-> page * PAGE_SIZE]

\* mm_free_page without the test "addr < managed_memory_start" of line 256
mm_free_page_nolow(s, addr) ==
    LET page == addr \div PAGE_SIZE
    IN  IF page >= s.total THEN s
        ELSE [s EXCEPT !.bitmap = bitmap_clear(s.bitmap, page),
                       !.used = s.used - 1]

mm_free_page(s, addr) ==
    IF addr < managed_memory_start THEN s
    ELSE LET page == addr \div PAGE_SIZE
         IN  IF page >= s.total THEN s
             ELSE [s EXCEPT !.bitmap = bitmap_clear(s.bitmap, page),
                            !.used = s.used - 1]

RECURSIVE mm_free_pages(_, _, _)
\* for (i = 0; i < pages; i++) mm_free_page(addr + i * PAGE_SIZE)
mm_free_pages(s, addr, pages) ==
    IF pages = 0 THEN s
    ELSE mm_free_pages(mm_free_page(s, addr), addr + PAGE_SIZE, pages - 1)

mm_get_total_pages == total_pages

mm_get_free_pages == total_pages - used_pages

\* no allocation of the main path is in progress
MmIdle == [pc |-> "idle", op |-> "", n |-> 0, page |-> NoIndex, irq |-> {}]

\* the allocator state held in the variables
MmState == [bitmap |-> page_bitmap, entries |-> page_bitmap_entries,
            total |-> total_pages, used |-> used_pages]

MmStore(s) ==
    /\ page_bitmap' = s.bitmap
    /\ page_bitmap_entries' = s.entries
    /\ total_pages' = s.total
    /\ used_pages' = s.used
    \* no function of memory.c calls panic()
    /\ mm_halt' = mm_halt

\* number of 1 bits among the indices of the frames, [0, total)
PopcountOf(s) == s.total - Cardinality({ i \in s.bitmap : i < s.total })

Popcount == PopcountOf(MmState)

FramesOf(addr, n) == { addr \div PAGE_SIZE + i : i \in 0..(n - 1) }

\* mm_alloc_page called k times in a row
RECURSIVE BootAllocate(_, _)
BootAllocate(s, k) ==
    IF k = 0 THEN s
    ELSE LET r == mm_alloc_page(s)
         IN  IF r.ret = 0 THEN s ELSE BootAllocate(r.s, k - 1)

(***************************************************************************)
(* paging.c.  A 64-bit word is [nx, hi, pfn, lo]: bit 63, bits 47..62,     *)
(* bits 12..46 and bits 0..11.  The mapper reads and writes page-table     *)
(* entries through pointers it computes: pml4_table + index, and the       *)
(* windows PDP_SELF_REF, PD_SELF_REF and PT_SELF_REF plus a byte offset.   *)
(* pt_mem maps such an address <<window, byte offset>> to the word stored  *)
(* there; an address that is absent holds 0.  For the virtual addresses    *)
(* used here (below 2^31) the offsets stay far below the distance between  *)
(* the window bases, so addresses of different windows never coincide.     *)
(***************************************************************************)
PAGE_OFFSET_BITS == 4096   \* 1 + PAGE_OFFSET_MASK
PF_PRESENT == 1
PF_WRITABLE == 2
PF_USER == 4
PF_WRITE_THROUGH == 8
PF_CACHE_DISABLE == 16
PF_GLOBAL == 256
PTE_WRITABLE == 2
PTE_USER == 4
PTE_WRITE_THROUGH == 8
PTE_CACHE_DISABLE == 16
PTE_GLOBAL == 256
RECURSIVE_MAPPING_INDEX == 510
TABLE_ENTRIES == 512

ZeroW == [nx |-> 0, hi |-> 0, pfn |-> 0, lo |-> 0]

\* bit b (a power of two) of x
HasBit(x, b) == (x \div b) % 2 = 1

\* a small address as a 64-bit word
AddrW(a) == [nx |-> 0, hi |-> 0, pfn |-> a \div PAGE_SIZE, lo |-> a % PAGE_SIZE]

\* w & PAGE_MASK, PAGE_MASK = 0xFFFFFFFFFFFFF000: bits 12..63 are kept
AndPageMask(w) == [w EXCEPT !.lo = 0]

\* v >> 39, v >> 30, v >> 21, v >> 12 for v below 2^31
Shr39(v) == (v \div 1073741824) \div 512
Shr30(v) == v \div 1073741824
Shr21(v) == v \div 2097152
Shr12(v) == v \div 4096

MemRead(m, a) == IF a \in DOMAIN m THEN m[a] ELSE ZeroW

MemWrite(m, a, w) ==
    IF w = ZeroW THEN [k \in DOMAIN m \ {a} |-> m[k]]
    ELSE [k \in DOMAIN m \cup {a} |-> IF k = a THEN w ELSE m[k]]

\* for (i = 0; i < 512; i++) table[i] = 0, table = window + base
MemClearTable(m, win, base) ==
    [k \in { x \in DOMAIN m : ~(x[1] = win /\ x[2] >= base
                                /\ x[2] < base + 8 * TABLE_ENTRIES) } |-> m[k]]

get_pml4_entry(v) == <<"PML4", 8 * (Shr39(v) % 512)>>

\* pdp_table = PDP_SELF_REF + ((virt_addr >> 39) & 0xFF8)
PdpTableOf(v) == (Shr39(v) % 4096) - (Shr39(v) % 8)
get_pdp_entry(v) == <<"PDP", PdpTableOf(v) + 8 * (Shr30(v) % 512)>>

\* pd_table = PD_SELF_REF + ((virt_addr >> 30) & 0x3FFFF8)
PdTableOf(v) == (Shr30(v) % 4194304) - (Shr30(v) % 8)
get_pd_entry(v) == <<"PD", PdTableOf(v) + 8 * (Shr21(v) % 512)>>

\* pt_table = PT_SELF_REF + ((virt_addr >> 21) & 0x7FFFFFF8); v >> 21 is below 2^31
PtTableOf(v) == Shr21(v) - (Shr21(v) % 8)
get_pt_entry(v) == <<"PT", PtTableOf(v) + 8 * (Shr12(v) % 512)>>

Present(m, e) == HasBit(MemRead(m, e).lo, PF_PRESENT)

is_page_mapped(m, v) ==
    IF ~Present(m, get_pml4_entry(v)) THEN FALSE
    ELSE IF ~Present(m, get_pdp_entry(v)) THEN FALSE
    ELSE IF ~Present(m, get_pd_entry(v)) THEN FALSE
    ELSE Present(m, get_pt_entry(v))

\* pml4_table = KERNEL_PHYSICAL_MAP (0xFFFF800000000000);
\* pml4_table[510] = (uintptr_t)pml4_table | PF_PRESENT | PF_WRITABLE
vm_init ==
    MemWrite(<<>>, <<"PML4", 8 * RECURSIVE_MAPPING_INDEX>>,
             [nx |-> 1, hi |-> 65535, pfn |-> 0, lo |-> PF_PRESENT + PF_WRITABLE])

\* invlpg (virt_addr): the cached translation of that page is dropped
invlpg(t, v) == [k \in DOMAIN t \ {v - (v % PAGE_SIZE)} |-> t[k]]

\* declared in memory.h, defined in no file of src/: the frame allocator's
\* single-frame allocation (spec 4.1 alloc_frame), i.e. mm_alloc_page
alloc_physical_page(s) == mm_alloc_page(s)

(***************************************************************************)
(* The calls of paging.c as functions of st = [mem, tlb, mm]               *)
(***************************************************************************)
\* "if (!(*entry & PF_PRESENT)) { allocate; *entry = frame | P | W | U; clear }"
EnsureTable(st, e, win, base) ==
    IF Present(st.mem, e) THEN [st |-> st, ok |-> TRUE]
    ELSE LET r == alloc_physical_page(st.mm)
         IN  IF r.ret = 0 THEN [st |-> st, ok |-> FALSE]
             ELSE LET w  == [AddrW(r.ret) EXCEPT !.lo = PF_PRESENT + PF_WRITABLE + PF_USER]
                      m1 == MemWrite(st.mem, e, w)
                  IN  [st |-> [st EXCEPT !.mm = r.s, !.mem = MemClearTable(m1, win, base)],
                       ok |-> TRUE]

\* the leaf word (phys_addr & PAGE_MASK) | flags
LeafWord(physw, flags) == [AndPageMask(physw) EXCEPT !.nx = flags.nx, !.lo = flags.lo]

map_page_internal(st, physw, v, flags) ==
    IF is_page_mapped(st.mem, v)
    THEN [st |-> [st EXCEPT !.mem = MemWrite(st.mem, get_pt_entry(v), LeafWord(physw, flags))],
          ret |-> 0]
    ELSE LET a == EnsureTable(st, get_pml4_entry(v), "PDP", PdpTableOf(v))
         IN  IF ~a.ok THEN [st |-> a.st, ret |-> -1]
             ELSE LET b == EnsureTable(a.st, get_pdp_entry(v), "PD", PdTableOf(v))
                  IN  IF ~b.ok THEN [st |-> b.st, ret |-> -1]
                      ELSE LET c == EnsureTable(b.st, get_pd_entry(v), "PT", PtTableOf(v))
                           IN  IF ~c.ok THEN [st |-> c.st, ret |-> -1]
                               ELSE [st |-> [c.st EXCEPT
                                               !.mem = MemWrite(c.st.mem, get_pt_entry(v),
                                                                LeafWord(physw, flags)),
                                               !.tlb = invlpg(c.st.tlb, v)],
                                     ret |-> 0]

\* map_page's conversion without the test of PTE_GLOBAL (lines 88-89)
EntryFlags_noglobal(flags) ==
    [nx |-> flags.nx,
     lo |-> PF_PRESENT
            + (IF HasBit(flags.lo, PTE_WRITABLE) THEN PF_WRITABLE ELSE 0)
            + (IF HasBit(flags.lo, PTE_USER) THEN PF_USER ELSE 0)
            + (IF HasBit(flags.lo, PTE_WRITE_THROUGH) THEN PF_WRITE_THROUGH ELSE 0)
            + (IF HasBit(flags.lo, PTE_CACHE_DISABLE) THEN PF_CACHE_DISABLE ELSE 0)]

\* flags is the caller's word [nx, lo] of PTE_* bits
EntryFlags(flags) ==
    [nx |-> flags.nx,
     lo |-> PF_PRESENT
            + (IF HasBit(flags.lo, PTE_WRITABLE) THEN PF_WRITABLE ELSE 0)
            + (IF HasBit(flags.lo, PTE_USER) THEN PF_USER ELSE 0)
            + (IF HasBit(flags.lo, PTE_WRITE_THROUGH) THEN PF_WRITE_THROUGH ELSE 0)
            + (IF HasBit(flags.lo, PTE_CACHE_DISABLE) THEN PF_CACHE_DISABLE ELSE 0)
            + (IF HasBit(flags.lo, PTE_GLOBAL) THEN PF_GLOBAL ELSE 0)]

map_page(st, phys, virt, flags) ==
    map_page_internal(st, AndPageMask(AddrW(phys)), virt - (virt % PAGE_SIZE),
                      EntryFlags(flags))

\* unmap_page that also gives the leaf table back: clears the PD entry and
\* frees the table's frame
unmap_page_reclaim(st, virt) ==
    IF ~is_page_mapped(st.mem, virt) THEN [st |-> st, ret |-> -1]
    ELSE LET table == MemRead(st.mem, get_pd_entry(virt)).pfn * PAGE_SIZE
             m1    == MemWrite(st.mem, get_pt_entry(virt), ZeroW)
         IN  [st |-> [st EXCEPT !.mem = MemWrite(m1, get_pd_entry(virt), ZeroW),
                                !.tlb = invlpg(st.tlb, virt),
                                !.mm = mm_free_page(st.mm, table)],
              ret |-> 0]

unmap_page(st, virt) ==
    IF ~is_page_mapped(st.mem, virt) THEN [st |-> st, ret |-> -1]
    ELSE [st |-> [st EXCEPT !.mem = MemWrite(st.mem, get_pt_entry(virt), ZeroW),
                            !.tlb = invlpg(st.tlb, virt)],
          ret |-> 0]

\* (*pt_entry & PAGE_MASK) | (virt_addr & PAGE_OFFSET_MASK); 0 when not mapped
virtual_to_physical(m, virt) ==
    IF ~is_page_mapped(m, virt) THEN ZeroW
    ELSE [AndPageMask(MemRead(m, get_pt_entry(virt))) EXCEPT !.lo = virt % PAGE_OFFSET_BITS]

\* the clean-up loop of map_pages: for (j = 0; j < i; j++) unmap_page(virt_addr - j * PAGE_SIZE)
RECURSIVE MapPagesCleanup(_, _, _, _)
MapPagesCleanup(st, virt, j, i) ==
    IF j >= i THEN st
    ELSE MapPagesCleanup(unmap_page(st, virt - j * PAGE_SIZE).st, virt, j + 1, i)

\* the loop of map_pages from iteration i on
RECURSIVE MapPagesLoop(_, _, _, _, _, _)
MapPagesLoop(st, phys, virt, i, count, flags) ==
    IF i >= count THEN [st |-> st, ret |-> 0, failed |-> 0]
    ELSE LET r == map_page(st, phys, virt, flags)
         IN  IF r.ret # 0
             THEN [st |-> MapPagesCleanup(r.st, virt, 0, i), ret |-> r.ret, failed |-> i]
             ELSE MapPagesLoop(r.st, phys + PAGE_SIZE, virt + PAGE_SIZE, i + 1, count, flags)

map_pages(st, phys, virt, count, flags) ==
    MapPagesLoop(st, phys - (phys % PAGE_SIZE), virt - (virt % PAGE_SIZE), 0, count, flags)

RECURSIVE UnmapPagesLoop(_, _, _)
UnmapPagesLoop(st, virt, n) ==
    IF n = 0 THEN st
    ELSE UnmapPagesLoop(unmap_page(st, virt).st, virt + PAGE_SIZE, n - 1)

unmap_pages(st, virt, count) ==
    [st |-> UnmapPagesLoop(st, virt - (virt % PAGE_SIZE), count), ret |-> 0]

(***************************************************************************)
(* heap.c: the kernel heap                                                 *)
(*                                                                         *)
(* Memory is read and written in 8-byte words; a word is [lo, hi], its two *)
(* 32-bit halves (little endian).  A block_header_t is four words:         *)
(*   +0 magic (lo) and flags (hi),  +8 size,  +16 prev,  +24 next.         *)
(* heap.c never clears the arena: a word it has not written yet reads as   *)
(* `fill`, whatever the memory held before heap_init.  mem holds the words *)
(* that differ from fill.  The allocator's state is the record             *)
(*   [heap_start, heap_end, heap_size, used_space, free_list, mem, fill,   *)
(*    halt]                                                                *)
(* with halt = "hang" once a call has entered a loop it cannot leave and   *)
(* halt = "wild" once a call has written to an address outside the arena   *)
(* (memory this module does not describe); no call is followed after       *)
(* either.  A read outside the arena yields fill.                          *)
(* used_space is a size_t; the model keeps its signed representative.      *)
(***************************************************************************)
HEAP_MAGIC == 464367618
HEAP_MIN_SIZE == 4096
HEAP_MIN_ALLOC == 16
HEAP_MAX_ALLOC == 268435456
HEAP_ALIGN == 8
BLOCK_FREE == 1
BLOCK_LAST == 2
SizeofHeader == 32
SizeofWord == 8
NULL == 0
\* stands for SIZE_MAX: above every size and address the model forms
SIZE_MAX == 2147483647

\* A size_t or pointer at or above FarValue is kept as FarValue: it stands for
\* every 64-bit value that large, an address or a length far outside the
\* arena (FarValue is above HEAP_MAGIC, HEAP_MAX_ALLOC and every arena address).
FarValue == 536870912

Near(v) == IF v < 0 \/ v >= FarValue THEN FarValue ELSE v

\* used_space after an update, within -FarValue..FarValue
NearSigned(v) == IF v >= FarValue THEN FarValue ELSE IF v <= -FarValue THEN -FarValue ELSE v

HWord(lo, hi) == [lo |-> lo, hi |-> hi]

\* flags & b, flags | b, flags & ~b for a single-bit b
HasFlag(f, b) == (f \div b) % 2 = 1
OrFlag(f, b) == IF HasFlag(f, b) THEN f ELSE f + b
ClearFlag(f, b) == IF HasFlag(f, b) THEN f - b ELSE f

\* (x + (a - 1)) & ~(a - 1), a a power of two
AlignUp(x, a) == (x + (a - 1)) - ((x + (a - 1)) % a)

\* (a & (a - 1)) = 0 for a > 0
IsPowerOfTwo(a) == \E k \in 0..30 : a = 2^k

Load(h, a) == IF a \in DOMAIN h.mem THEN h.mem[a] ELSE h.fill

Store(h, a, w) ==
    IF a < h.heap_start \/ a >= h.heap_end
    THEN [h EXCEPT !.halt = "wild"]
    ELSE [h EXCEPT !.mem = IF w = h.fill
                           THEN [x \in (DOMAIN h.mem) \ {a} |-> h.mem[x]]
                           ELSE (a :> w) @@ h.mem]

\* a word read as a size_t or a pointer
WordValue(w) == IF w.hi = 0 THEN Near(w.lo) ELSE FarValue

blk_magic(h, b) == Load(h, b).lo
blk_flags(h, b) == Load(h, b).hi
blk_size(h, b) == WordValue(Load(h, b + 8))
blk_prev(h, b) == WordValue(Load(h, b + 16))
blk_next(h, b) == WordValue(Load(h, b + 24))

SetMagic(h, b, v) == Store(h, b, [Load(h, b) EXCEPT !.lo = v])
SetFlags(h, b, v) == Store(h, b, [Load(h, b) EXCEPT !.hi = v])
SetSize(h, b, v) == Store(h, b + 8, HWord(Near(v), 0))
SetPrev(h, b, v) == Store(h, b + 16, HWord(Near(v), 0))
SetNext(h, b, v) == Store(h, b + 24, HWord(Near(v), 0))

\* the statics of heap.c before heap_init
HeapStatics(fill) ==
    [heap_start |-> 0, heap_end |-> 0, heap_size |-> 0, used_space |-> 0,
     free_list |-> NULL, mem |-> <<>>, fill |-> fill, halt |-> ""]

\* F applied to the value of e: the statements of a function body run one
\* after the other, each on the state the one before it left
Bind(e, F(_)) == CHOOSE r \in {F(v) : v \in {e}} : TRUE

heap_init(h, start, size) ==
    IF size < HEAP_MIN_SIZE THEN h
    ELSE
    LET aligned_start == AlignUp(start, HEAP_ALIGN)
        sz == size - (aligned_start - start)
    IN  Bind([h EXCEPT !.heap_start = aligned_start, !.heap_size = sz,
                       !.heap_end = aligned_start + sz], LAMBDA h1 :
        Bind(Store(h1, aligned_start, HWord(HEAP_MAGIC, BLOCK_FREE + BLOCK_LAST)), LAMBDA h2 :
        Bind(SetSize(h2, aligned_start, sz - SizeofHeader), LAMBDA h3 :
        Bind(SetPrev(h3, aligned_start, NULL), LAMBDA h4 :
        Bind(SetNext(h4, aligned_start, NULL), LAMBDA h5 :
        [h5 EXCEPT !.free_list = aligned_start, !.used_space = 0])))))

\* the while loop of heap_find_free_block; seen holds the blocks visited:
\* coming back to one, the loop runs for ever (it only leaves at NULL or at a
\* perfect fit, and neither is on the cycle)
RECURSIVE FindLoop(_, _, _, _, _, _)
FindLoop(h, size, block, best_block, best_size, seen) ==
    IF block = NULL THEN [blk |-> best_block, hang |-> FALSE]
    ELSE IF block \in seen THEN [blk |-> NULL, hang |-> TRUE]
    ELSE
    Bind(blk_size(h, block), LAMBDA bs :
    Bind(blk_next(h, block), LAMBDA nx :
    Bind(seen \cup {block}, LAMBDA seen1 :
        IF HasFlag(blk_flags(h, block), BLOCK_FREE) /\ bs >= size /\ bs < best_size
        THEN IF bs = size
             THEN [blk |-> block, hang |-> FALSE]
             ELSE FindLoop(h, size, nx, block, bs, seen1)
        ELSE FindLoop(h, size, nx, best_block, best_size, seen1))))

heap_find_free_block(h, size) ==
    FindLoop(h, size, h.free_list, NULL, SIZE_MAX, {})

heap_split_block(h, block, size) ==
    LET new_block == block + SizeofHeader + size
    IN  Bind(Store(h, new_block, HWord(HEAP_MAGIC, BLOCK_FREE)), LAMBDA h1 :
        Bind(SetSize(h1, new_block, blk_size(h1, block) - size - SizeofHeader), LAMBDA h2 :
        Bind(SetPrev(h2, new_block, block), LAMBDA h3 :
        Bind(SetNext(h3, new_block, blk_next(h3, block)), LAMBDA h4 :
        Bind(LET next_block == block + SizeofHeader + blk_size(h4, block)
             IN  IF ~HasFlag(blk_flags(h4, block), BLOCK_LAST)
                 THEN IF blk_magic(h4, next_block) = HEAP_MAGIC
                      THEN SetPrev(h4, next_block, new_block)
                      ELSE h4
                 ELSE Bind(SetFlags(h4, new_block,
                                    OrFlag(blk_flags(h4, new_block), BLOCK_LAST)), LAMBDA g :
                      SetFlags(g, block, ClearFlag(blk_flags(g, block), BLOCK_LAST))),
             LAMBDA h5 :
        Bind(SetSize(h5, block, size), LAMBDA h6 :
        Bind(SetNext(h6, block, new_block), LAMBDA h7 :
        Bind(SetNext(h7, new_block, h7.free_list), LAMBDA h8 :
        Bind(IF h8.free_list # NULL THEN SetPrev(h8, h8.free_list, new_block) ELSE h8,
             LAMBDA h9 :
        [h9 EXCEPT !.free_list = new_block])))))))))

\* heap_allocate_block once heap_find_free_block has returned block
AllocateFound(h, block, size) ==
    Bind(LET bp == blk_prev(h, block)
         IN  IF bp # NULL /\ HasFlag(blk_flags(h, bp), BLOCK_FREE)
             THEN SetNext(h, bp, blk_next(h, block))
             ELSE [h EXCEPT !.free_list = blk_next(h, block)], LAMBDA h1 :
    Bind(LET bn == blk_next(h1, block)
         IN  IF bn # NULL /\ HasFlag(blk_flags(h1, bn), BLOCK_FREE)
             THEN SetPrev(h1, bn, blk_prev(h1, block))
             ELSE h1, LAMBDA h2 :
    Bind(IF blk_size(h2, block) > size + SizeofHeader + HEAP_MIN_ALLOC
         THEN heap_split_block(h2, block, size)
         ELSE h2, LAMBDA h3 :
    Bind(SetFlags(h3, block, ClearFlag(blk_flags(h3, block), BLOCK_FREE)), LAMBDA h4 :
    [h |-> [h4 EXCEPT !.used_space = NearSigned(@ + blk_size(h4, block) + SizeofHeader)],
     ret |-> block + SizeofHeader]))))

heap_allocate_block(h, size) ==
    IF h.heap_start = 0 THEN [h |-> h, ret |-> NULL]
    ELSE Bind(heap_find_free_block(h, size), LAMBDA f :
         IF f.hang THEN [h |-> [h EXCEPT !.halt = "hang"], ret |-> NULL]
         ELSE IF f.blk = NULL THEN [h |-> h, ret |-> NULL]
         ELSE AllocateFound(h, f.blk, size))

\* the first loop of heap_merge_blocks: absorb the physically next blocks
RECURSIVE MergeNext(_, _)
MergeNext(h, block) ==
    IF HasFlag(blk_flags(h, block), BLOCK_LAST) THEN h
    ELSE
    Bind(block + SizeofHeader + blk_size(h, block), LAMBDA next :
        IF ~(blk_magic(h, next) = HEAP_MAGIC /\ HasFlag(blk_flags(h, next), BLOCK_FREE))
        THEN h
        ELSE
        Bind(LET np == blk_prev(h, next)
             IN  IF np # NULL /\ HasFlag(blk_flags(h, np), BLOCK_FREE)
                 THEN SetNext(h, np, blk_next(h, next))
                 ELSE [h EXCEPT !.free_list = blk_next(h, next)], LAMBDA h1 :
        Bind(LET nn == blk_next(h1, next)
             IN  IF nn # NULL /\ HasFlag(blk_flags(h1, nn), BLOCK_FREE)
                 THEN SetPrev(h1, nn, blk_prev(h1, next))
                 ELSE h1, LAMBDA h2 :
        Bind(IF HasFlag(blk_flags(h2, next), BLOCK_LAST)
             THEN SetFlags(h2, block, OrFlag(blk_flags(h2, block), BLOCK_LAST))
             ELSE h2, LAMBDA h3 :
        Bind(SetSize(h3, block, blk_size(h3, block) + SizeofHeader + blk_size(h3, next)),
             LAMBDA h4 :
        Bind(SetMagic(h4, next, 0), LAMBDA h5 :
        MergeNext(h5, block)))))))

\* the second loop of heap_merge_blocks: fold the block into block->prev
RECURSIVE MergePrev(_, _)
MergePrev(h, block) ==
    Bind(blk_prev(h, block), LAMBDA prev :
        IF ~(/\ prev # NULL /\ HasFlag(blk_flags(h, prev), BLOCK_FREE)
             /\ prev + SizeofHeader + blk_size(h, prev) = block)
        THEN h
        ELSE
        Bind(SetNext(h, prev, blk_next(h, block)), LAMBDA h1 :
        Bind(LET bn == blk_next(h1, block)
             IN  IF bn # NULL /\ HasFlag(blk_flags(h1, bn), BLOCK_FREE)
                 THEN SetPrev(h1, bn, blk_prev(h1, block))
                 ELSE h1, LAMBDA h2 :
        Bind(IF HasFlag(blk_flags(h2, block), BLOCK_LAST)
             THEN SetFlags(h2, prev, OrFlag(blk_flags(h2, prev), BLOCK_LAST))
             ELSE h2, LAMBDA h3 :
        Bind(SetSize(h3, prev, blk_size(h3, prev) + SizeofHeader + blk_size(h3, block)),
             LAMBDA h4 :
        Bind(SetNext(h4, prev, blk_next(h4, block)), LAMBDA h5 :
        Bind(SetMagic(h5, block, 0), LAMBDA h6 :
        MergePrev(h6, prev))))))))

heap_merge_blocks(h, block) ==
    Bind(MergeNext(h, block), LAMBDA h1 : MergePrev(h1, block))

heap_free_block(h, ptr) ==
    LET block == ptr - SizeofHeader
    IN  IF blk_magic(h, block) # HEAP_MAGIC THEN h
        ELSE IF HasFlag(blk_flags(h, block), BLOCK_FREE) THEN h
        ELSE
        Bind(SetFlags(h, block, OrFlag(blk_flags(h, block), BLOCK_FREE)), LAMBDA h1 :
        Bind([h1 EXCEPT !.used_space =
                            NearSigned(@ - (blk_size(h1, block) + SizeofHeader))], LAMBDA h2 :
        Bind(SetNext(h2, block, h2.free_list), LAMBDA h3 :
        Bind(SetPrev(h3, block, NULL), LAMBDA h4 :
        Bind(IF h4.free_list # NULL THEN SetPrev(h4, h4.free_list, block) ELSE h4,
             LAMBDA h5 :
        Bind([h5 EXCEPT !.free_list = block], LAMBDA h6 :
        heap_merge_blocks(h6, block)))))))

kmalloc(h, size) ==
    IF size = 0 \/ size > HEAP_MAX_ALLOC THEN [h |-> h, ret |-> NULL]
    ELSE LET aligned == AlignUp(size, HEAP_ALIGN)
         IN  heap_allocate_block(h, IF aligned < HEAP_MIN_ALLOC
                                    THEN HEAP_MIN_ALLOC ELSE aligned)

kmalloc_aligned(h, size, alignment) ==
    IF size = 0 \/ size > HEAP_MAX_ALLOC \/ alignment = 0 \/ ~IsPowerOfTwo(alignment)
    THEN [h |-> h, ret |-> NULL]
    ELSE
    LET al == IF alignment < HEAP_ALIGN THEN HEAP_ALIGN ELSE alignment
    IN  Bind(kmalloc(h, size + al), LAMBDA r :
        LET addr == r.ret
            aligned_addr == AlignUp(addr, al)
        IN  IF r.ret = NULL THEN r
            ELSE IF addr = aligned_addr THEN r
            ELSE [h |-> Store(r.h, aligned_addr - SizeofWord, HWord(aligned_addr - addr, 0)),
                  ret |-> aligned_addr])

kfree(h, ptr) ==
    LET addr == ptr
        header == addr - SizeofHeader
        offset == WordValue(Load(h, addr - SizeofWord))
    IN  IF ptr = NULL THEN h
        ELSE IF blk_magic(h, header) = HEAP_MAGIC
                /\ ~HasFlag(blk_flags(h, header), BLOCK_FREE)
        THEN heap_free_block(h, ptr)
        ELSE IF addr >= h.heap_start + SizeofWord /\ addr < h.heap_end
                /\ offset > 0 /\ offset < HEAP_MAX_ALLOC
        THEN heap_free_block(h, addr - offset)
        ELSE h

\* memcpy(dst, src, n) of whole words and, for n % 8 = 4, of the low half of
\* the word that follows them
Memcpy(h, dst, src, n) ==
    LET full == n \div SizeofWord
        D == {dst + SizeofWord * k : k \in 0..(full - 1)}
        t == SizeofWord * full
    IN  Bind([a \in (DOMAIN h.mem) \cup D |->
                 IF a \in D THEN Load(h, src + (a - dst)) ELSE h.mem[a]], LAMBDA m :
        Bind([h EXCEPT !.mem = [a \in {x \in DOMAIN m : m[x] # h.fill} |-> m[a]]],
             LAMBDA h1 :
        IF n % SizeofWord = 0 THEN h1
        ELSE Store(h1, dst + t, [Load(h1, dst + t) EXCEPT !.lo = Load(h, src + t).lo])))

\* the branch of krealloc that splits the tail off a block that shrinks
ReallocShrink(h, header, sz) ==
    LET new_block == header + SizeofHeader + sz
    IN  Bind(Store(h, new_block, HWord(HEAP_MAGIC, BLOCK_FREE)), LAMBDA s1 :
        Bind(SetSize(s1, new_block, blk_size(s1, header) - sz - SizeofHeader), LAMBDA s2 :
        Bind(SetPrev(s2, new_block, header), LAMBDA s3 :
        Bind(SetNext(s3, new_block, blk_next(s3, header)), LAMBDA s4 :
        Bind(SetSize(s4, header, sz), LAMBDA s5 :
        Bind(SetNext(s5, header, new_block), LAMBDA s6 :
        Bind(LET nbn == blk_next(s6, new_block)
             IN  IF HasFlag(blk_flags(s6, header), BLOCK_LAST)
                 THEN Bind(SetFlags(s6, header,
                                    ClearFlag(blk_flags(s6, header), BLOCK_LAST)), LAMBDA g :
                      SetFlags(g, new_block, OrFlag(blk_flags(g, new_block), BLOCK_LAST)))
                 ELSE IF nbn # NULL THEN SetPrev(s6, nbn, new_block)
                 ELSE s6, LAMBDA s7 :
        Bind(SetNext(s7, new_block, s7.free_list), LAMBDA s8 :
        Bind(IF s8.free_list # NULL THEN SetPrev(s8, s8.free_list, new_block) ELSE s8,
             LAMBDA s9 :
        [s9 EXCEPT !.free_list = new_block,
                   !.used_space =
                       NearSigned(@ - (blk_size(s9, new_block) + SizeofHeader))])))))))))

\* krealloc that frees the old block before it reports that kmalloc failed
krealloc_freefirst(h, ptr, size) ==
    LET header == ptr - SizeofHeader
        aligned == AlignUp(size, HEAP_ALIGN)
        sz == IF aligned < HEAP_MIN_ALLOC THEN HEAP_MIN_ALLOC ELSE aligned
    IN  IF ptr = NULL THEN kmalloc(h, size)
        ELSE IF size = 0 THEN [h |-> kfree(h, ptr), ret |-> NULL]
        ELSE IF size > HEAP_MAX_ALLOC THEN [h |-> h, ret |-> NULL]
        ELSE IF blk_magic(h, header) # HEAP_MAGIC
                \/ HasFlag(blk_flags(h, header), BLOCK_FREE)
        THEN [h |-> h, ret |-> NULL]
        ELSE IF size <= blk_size(h, header)
        THEN IF blk_size(h, header) - sz >= SizeofHeader + HEAP_MIN_ALLOC
             THEN [h |-> ReallocShrink(h, header, sz), ret |-> ptr]
             ELSE [h |-> h, ret |-> ptr]
        ELSE Bind(kmalloc(h, size), LAMBDA r :
             IF r.ret = NULL THEN [h |-> kfree(r.h, ptr), ret |-> NULL]
             ELSE Bind(Memcpy(r.h, r.ret, ptr, blk_size(r.h, header)), LAMBDA c :
                  [h |-> kfree(c, ptr), ret |-> r.ret]))

krealloc(h, ptr, size) ==
    LET header == ptr - SizeofHeader
        aligned == AlignUp(size, HEAP_ALIGN)
        sz == IF aligned < HEAP_MIN_ALLOC THEN HEAP_MIN_ALLOC ELSE aligned
    IN  IF ptr = NULL THEN kmalloc(h, size)
        ELSE IF size = 0 THEN [h |-> kfree(h, ptr), ret |-> NULL]
        ELSE IF size > HEAP_MAX_ALLOC THEN [h |-> h, ret |-> NULL]
        ELSE IF blk_magic(h, header) # HEAP_MAGIC
                \/ HasFlag(blk_flags(h, header), BLOCK_FREE)
        THEN [h |-> h, ret |-> NULL]
        ELSE IF size <= blk_size(h, header)
        THEN IF blk_size(h, header) - sz >= SizeofHeader + HEAP_MIN_ALLOC
             THEN [h |-> ReallocShrink(h, header, sz), ret |-> ptr]
             ELSE [h |-> h, ret |-> ptr]
        ELSE Bind(kmalloc(h, size), LAMBDA r :
             IF r.ret = NULL THEN r
             ELSE Bind(Memcpy(r.h, r.ret, ptr, blk_size(r.h, header)), LAMBDA c :
                  [h |-> kfree(c, ptr), ret |-> r.ret]))

ksize(h, ptr) ==
    IF ptr = NULL THEN 0
    ELSE IF blk_magic(h, ptr - SizeofHeader) # HEAP_MAGIC
            \/ HasFlag(blk_flags(h, ptr - SizeofHeader), BLOCK_FREE)
    THEN 0
    ELSE blk_size(h, ptr - SizeofHeader)

\* the walk of heap_check_integrity from block
RECURSIVE IntegrityLoop(_, _)
IntegrityLoop(h, block) ==
    IF blk_magic(h, block) # HEAP_MAGIC THEN FALSE
    ELSE IF block + SizeofHeader + blk_size(h, block) > h.heap_end THEN FALSE
    ELSE IF HasFlag(blk_flags(h, block), BLOCK_LAST) THEN TRUE
    ELSE Bind(block + SizeofHeader + blk_size(h, block), LAMBDA nb : IntegrityLoop(h, nb))

heap_check_integrity(h) ==
    IF h.heap_start = 0 \/ h.heap_size = 0 THEN FALSE
    ELSE IntegrityLoop(h, h.heap_start)

(***************************************************************************)
(* Configurations of the heap                                                *)
(***************************************************************************)
MaxLive == 3
MaxCalls == 7

\* heap_init(start, size) calls, with what the arena's memory holds before:
\* an aligned start on zeroed memory, an unaligned start on memory that holds
\* the image of a header word
HeapBoots ==
    {[start |-> 1048576, size |-> 4096, fill |-> HWord(0, 0)],
     [start |-> 1048580, size |-> 4096, fill |-> HWord(HEAP_MAGIC, 0)]}

KmallocSizes == {32}

AlignedArgs == {[size |-> 16, alignment |-> 64]}

ReallocSizes == {8, 100}

\* no kmalloc of the main path is in progress
HeapIdle == [pc |-> "idle", size |-> 0, block |-> NULL, irq |-> {}]

HeapState ==
    [heap_start |-> heap_start, heap_end |-> heap_end, heap_size |-> heap_size,
     used_space |-> used_space, free_list |-> free_list, mem |-> heap_mem,
     fill |-> heap_fill, halt |-> heap_halt]

HeapStore(h) ==
    /\ heap_start' = h.heap_start
    /\ heap_end' = h.heap_end
    /\ heap_size' = h.heap_size
    /\ used_space' = h.used_space
    /\ free_list' = h.free_list
    /\ heap_mem' = h.mem
    /\ heap_fill' = h.fill
    /\ heap_halt' = h.halt

HeapIs(h) ==
    /\ heap_start = h.heap_start
    /\ heap_end = h.heap_end
    /\ heap_size = h.heap_size
    /\ used_space = h.used_space
    /\ free_list = h.free_list
    /\ heap_mem = h.mem
    /\ heap_fill = h.fill
    /\ heap_halt = h.halt

\* the heap's variables while heap_init has not been called
HeapBoot ==
    /\ HeapIs(HeapStatics(HWord(0, 0)))
    /\ live = {}
    /\ heap_calls = 0
    /\ aligned_calls = 0
    /\ heap_last = [op |-> "none", ptr |-> NULL, size |-> 0, alignment |-> 0, ret |-> NULL]
    /\ heap_call = HeapIdle

(***************************************************************************)
(* Actions of SpecMM                                                       *)
(***************************************************************************)
\* no map_page call is in progress
VmIdle == [pc |-> "idle", physw |-> ZeroW, virt |-> 0, flags |-> [nx |-> 0, lo |-> 0],
           level |-> 0, stale |-> FALSE]

\* the mapper's variables after vm_init
VmBoot ==
    /\ pt_mem = vm_init
    /\ tlb = <<>>
    /\ vm_last = [op |-> "vm_init", phys |-> 0, virt |-> 0, count |-> 0, ret |-> 0,
                  failed |-> 0]
    /\ vm_call = VmIdle

\* the allocator's variables after mm_init and the boot-time allocations
MmBoot ==
    \E cfg \in BootConfigs :
        LET s == BootAllocate(mm_init(cfg), BootAllocs)
        IN  /\ page_bitmap = s.bitmap
            /\ page_bitmap_entries = s.entries
            /\ total_pages = s.total
            /\ used_pages = s.used
            /\ mm_halt = ""
            /\ outstanding = {}
            /\ mm_last = [op |-> "mm_init", addr |-> 0, n |-> 0, ret |-> 0, refree |-> FALSE]
            /\ mm_call = MmIdle

MmAllocPage ==
    LET r == mm_alloc_page(MmState)
    IN  /\ MmStore(r.s)
        /\ mm_call' = mm_call
        /\ outstanding' = IF r.ret = 0 THEN outstanding
                          ELSE outstanding \cup FramesOf(r.ret, 1)
        /\ mm_last' = [op |-> "mm_alloc_page", addr |-> 0, n |-> 1, ret |-> r.ret,
                       refree |-> FALSE]

MmAllocPages ==
    \E n \in 1..MaxRun :
        LET r == mm_alloc_pages(MmState, n)
        IN  /\ MmStore(r.s)
            /\ mm_call' = mm_call
            /\ outstanding' = IF r.ret = 0 THEN outstanding
                              ELSE outstanding \cup FramesOf(r.ret, n)
            /\ mm_last' = [op |-> "mm_alloc_pages", addr |-> 0, n |-> n, ret |-> r.ret,
                           refree |-> FALSE]

\* used_pages is a size_t that a double free lowers without limit; the model
\* stops freeing once it has fallen MaxDrift below the number of set bits
DriftOk(s) == PopcountOf(s) - s.used <= MaxDrift

\* a frame of [addr, addr + n pages) that the call frees although its bit is 0
Refree(addr, n) ==
    \E i \in 0..(n - 1) :
        /\ addr + i * PAGE_SIZE >= managed_memory_start
        /\ addr \div PAGE_SIZE + i < total_pages
        /\ ~bitmap_test(page_bitmap, addr \div PAGE_SIZE + i)

MmFreePage ==
    \E addr \in FreeAddrs :
        LET s == mm_free_page(MmState, addr)
        IN  /\ DriftOk(s)
            /\ MmStore(s)
            /\ mm_call' = mm_call
            /\ outstanding' = outstanding \ FramesOf(addr, 1)
            /\ mm_last' = [op |-> "mm_free_page", addr |-> addr, n |-> 1, ret |-> 0,
                           refree |-> Refree(addr, 1)]

MmFreePages ==
    \E addr \in FreeAddrs, n \in 1..MaxRun :
        LET s == mm_free_pages(MmState, addr, n)
        IN  /\ DriftOk(s)
            /\ MmStore(s)
            /\ mm_call' = mm_call
            /\ outstanding' = outstanding \ FramesOf(addr, n)
            /\ mm_last' = [op |-> "mm_free_pages", addr |-> addr, n |-> n, ret |-> 0,
                           refree |-> Refree(addr, n)]

InitMM == MmBoot /\ VmBoot /\ HeapBoot

NextMM ==
    \/ MmAllocPage /\ UNCHANGED <<vmvars, heapvars>>
    \/ MmAllocPages /\ UNCHANGED <<vmvars, heapvars>>
    \/ MmFreePage /\ UNCHANGED <<vmvars, heapvars>>
    \/ MmFreePages /\ UNCHANGED <<vmvars, heapvars>>

SpecMM == InitMM /\ [][NextMM]_vars

\* frames handed out and not yet freed, at most, in SpecMM16
MaxOutstanding == 8

\* a machine with 16 MiB of memory (mem_upper = 16384 KiB, so that
\* total_memory = 16 MiB) on which the kernel image reserves no frame
Boot16 == [mem_upper |-> 16384, kernel_start |-> 0, kernel_end |-> 0]

\* the allocator's variables right after mm_init(16384)
InitMM16 ==
    /\ VmBoot
    /\ HeapBoot
    /\ \E s \in {mm_init(Boot16)} :
          /\ page_bitmap = s.bitmap
          /\ page_bitmap_entries = s.entries
          /\ total_pages = s.total
          /\ used_pages = s.used
    /\ mm_halt = ""
    /\ outstanding = {}
    /\ mm_last = [op |-> "mm_init", addr |-> 0, n |-> 0, ret |-> 0, refree |-> FALSE]
    /\ mm_call = MmIdle

NextMM16 ==
    \/ Cardinality(outstanding) < MaxOutstanding /\ MmAllocPage /\ UNCHANGED <<vmvars, heapvars>>
    \/ Cardinality(outstanding) < MaxOutstanding /\ MmAllocPages /\ UNCHANGED <<vmvars, heapvars>>
    \/ MmFreePage /\ UNCHANGED <<vmvars, heapvars>>
    \/ MmFreePages /\ UNCHANGED <<vmvars, heapvars>>

SpecMM16 == InitMM16 /\ [][NextMM16]_vars

(***************************************************************************)
(* SpecMMIrq: memory.c with an interrupt handler that allocates frames     *)
(* mm_alloc_page and mm_alloc_pages (memory.c:214-247) neither mask        *)
(* interrupts nor take a lock, so a handler can run between the scan of    *)
(* the bitmap (lines 215, 233) and the bitmap_set calls (lines 221, 240).  *)
(* The handler itself runs to completion.                                  *)
(***************************************************************************)
\* the calls a path can make: mm_alloc_page() and mm_alloc_pages(1..MaxRun)
AllocCalls ==
    {[op |-> "mm_alloc_page", n |-> 1]} \cup
    {[op |-> "mm_alloc_pages", n |-> n] : n \in 1..MaxRun}

\* the main path up to the return of bitmap_find_free / bitmap_find_free_contiguous
AllocScan ==
    /\ mm_call.pc = "idle"
    /\ \E c \in AllocCalls :
        \E page \in {IF c.op = "mm_alloc_page"
                     THEN bitmap_find_free(page_bitmap, page_bitmap_entries)
                     ELSE bitmap_find_free_contiguous(page_bitmap, page_bitmap_entries,
                                                      total_pages, c.n)} :
            IF page = NoIndex
            THEN /\ mm_last' = [op |-> c.op, addr |-> 0, n |-> c.n, ret |-> 0,
                                refree |-> FALSE]
                 /\ UNCHANGED <<page_bitmap, page_bitmap_entries, total_pages, used_pages,
                                mm_halt, outstanding, mm_call>>
            ELSE /\ mm_call' = [pc |-> "found", op |-> c.op, n |-> c.n, page |-> page,
                                irq |-> {}]
                 /\ UNCHANGED <<page_bitmap, page_bitmap_entries, total_pages, used_pages,
                                mm_halt, outstanding, mm_last>>

\* the main path from there: bitmap_set(page + i), used_pages += pages, return
AllocMark ==
    /\ mm_call.pc = "found"
    /\ MmStore([MmState EXCEPT
                   !.bitmap = @ \ { mm_call.page + i : i \in 0..(mm_call.n - 1) },
                   !.used = @ + mm_call.n])
    /\ outstanding' = outstanding \cup FramesOf(mm_call.page * PAGE_SIZE, mm_call.n)
    /\ mm_last' = [op |-> mm_call.op, addr |-> 0, n |-> mm_call.n,
                   ret |-> mm_call.page * PAGE_SIZE, refree |-> FALSE]
    /\ mm_call' = MmIdle

\* an interrupt handler calls mm_alloc_page or mm_alloc_pages; mm_call.irq
\* collects the frames it is given while the main path's call is in progress.
\* A frame counted twice raises used_pages without limit; the model stops
\* interrupting allocations once it is MaxDrift above the number of set bits.
IrqAlloc ==
    /\ mm_call.pc = "found" => used_pages - Popcount < MaxDrift
    /\ \E c \in AllocCalls :
            \E r \in {IF c.op = "mm_alloc_page" THEN mm_alloc_page(MmState)
                      ELSE mm_alloc_pages(MmState, c.n)} :
                /\ MmStore(r.s)
                /\ outstanding' = IF r.ret = 0 THEN outstanding
                                  ELSE outstanding \cup FramesOf(r.ret, c.n)
                /\ mm_last' = [op |-> c.op, addr |-> 0, n |-> c.n, ret |-> r.ret,
                               refree |-> FALSE]
                /\ mm_call' = IF mm_call.pc = "found" /\ r.ret # 0
                              THEN [mm_call EXCEPT !.irq = @ \cup FramesOf(r.ret, c.n)]
                              ELSE mm_call

NextMMIrq ==
    \/ AllocScan /\ UNCHANGED <<vmvars, heapvars>>
    \/ AllocMark /\ UNCHANGED <<vmvars, heapvars>>
    \/ IrqAlloc /\ UNCHANGED <<vmvars, heapvars>>
    \/ mm_call.pc = "idle" /\ MmFreePage /\ UNCHANGED <<vmvars, heapvars>>

SpecMMIrq == InitMM /\ [][NextMMIrq]_vars

(***************************************************************************)
(* Actions of SpecVM                                                       *)
(***************************************************************************)
\* pages of map_pages / unmap_pages
MaxPages == 2
\* frames still free when the mapper starts: 0..VmMaxFree
VmMaxFree == 4

\* the machine of SpecVM: 1088 frames (no tail bits), kernel image up to the bitmap
VmBootConfig == [mem_upper |-> 4352, kernel_start |-> 1048576, kernel_end |-> 4194304]

\* virtual pages: 0x0, 0x1FF000 (the last page of the first leaf table) and
\* 0x200000 (the first page of the second)
VirtPages == {0, 2093056, 2097152}

\* what is mapped: physical page 0x200000 writable, or physical page 0x300000
\* writable + user + no-execute
MapArgs == { [phys |-> 2097152, flags |-> [nx |-> 0, lo |-> PTE_WRITABLE]],
             [phys |-> 3145728, flags |-> [nx |-> 1, lo |-> PTE_WRITABLE + PTE_USER]] }

\* the pages whose translation the model lets the CPU cache
TlbPages == {0}

\* offsets inside a page at which translations are compared
PageOffsets == {0, 1, PAGE_SIZE - 1}

VmState == [mem |-> pt_mem, tlb |-> tlb, mm |-> MmState]

VmStore(st) ==
    /\ pt_mem' = st.mem
    /\ tlb' = st.tlb
    /\ MmStore(st.mm)
    /\ mm_call' = mm_call
    /\ vm_call' = vm_call

\* after mm_init and vm_init, the rest of the kernel having taken all but
\* 0..VmMaxFree of the free frames
InitVM ==
    /\ VmBoot
    /\ HeapBoot
    /\ \E free \in 0..VmMaxFree :
        LET s0 == mm_init(VmBootConfig)
            s  == BootAllocate(s0, Cardinality(s0.bitmap) - free)
        IN  /\ page_bitmap = s.bitmap
            /\ page_bitmap_entries = s.entries
            /\ total_pages = s.total
            /\ used_pages = s.used
            /\ mm_halt = ""
    /\ outstanding = {}
    /\ mm_last = [op |-> "mm_init", addr |-> 0, n |-> 0, ret |-> 0, refree |-> FALSE]
    /\ mm_call = MmIdle

VmMapPage ==
    \E a \in MapArgs, virt \in VirtPages :
        LET r == map_page(VmState, a.phys, virt, a.flags)
        IN  /\ VmStore(r.st)
            /\ vm_last' = [op |-> "map_page", phys |-> a.phys, virt |-> virt, count |-> 1,
                           ret |-> r.ret, failed |-> 0]
            /\ UNCHANGED <<outstanding, mm_last>>

VmUnmapPage ==
    \E virt \in VirtPages :
        LET r == unmap_page(VmState, virt)
        IN  /\ VmStore(r.st)
            /\ vm_last' = [op |-> "unmap_page", phys |-> 0, virt |-> virt, count |-> 1,
                           ret |-> r.ret, failed |-> 0]
            /\ UNCHANGED <<outstanding, mm_last>>

VmMapPages ==
    \E a \in MapArgs, virt \in VirtPages, count \in 1..MaxPages :
        LET r == map_pages(VmState, a.phys, virt, count, a.flags)
        IN  /\ VmStore(r.st)
            /\ vm_last' = [op |-> "map_pages", phys |-> a.phys, virt |-> virt,
                           count |-> count, ret |-> r.ret, failed |-> r.failed]
            /\ UNCHANGED <<outstanding, mm_last>>

VmUnmapPages ==
    \E virt \in VirtPages, count \in 1..MaxPages :
        LET r == unmap_pages(VmState, virt, count)
        IN  /\ VmStore(r.st)
            /\ vm_last' = [op |-> "unmap_pages", phys |-> 0, virt |-> virt, count |-> count,
                           ret |-> r.ret, failed |-> 0]
            /\ UNCHANGED <<outstanding, mm_last>>

\* the CPU translates an access to a mapped page and caches the leaf entry
TlbFill ==
    \E virt \in TlbPages :
        /\ is_page_mapped(pt_mem, virt)
        /\ tlb' = [k \in DOMAIN tlb \cup {virt} |->
                     IF k = virt THEN MemRead(pt_mem, get_pt_entry(virt)) ELSE tlb[k]]
        /\ UNCHANGED <<pt_mem, vm_last, vm_call>>
        /\ UNCHANGED mmvars

NextVM ==
    \/ VmMapPage /\ UNCHANGED heapvars
    \/ VmUnmapPage /\ UNCHANGED heapvars
    \/ VmMapPages /\ UNCHANGED heapvars
    \/ VmUnmapPages /\ UNCHANGED heapvars
    \/ TlbFill /\ UNCHANGED heapvars

SpecVM == InitVM /\ [][NextVM]_vars

\* map_page of physical frame 0 (the first page of low memory), writable
VmMapFrameZero ==
    \E virt \in VirtPages :
        \E r \in {map_page(VmState, 0, virt, [nx |-> 0, lo |-> PTE_WRITABLE])} :
            /\ VmStore(r.st)
            /\ vm_last' = [op |-> "map_page", phys |-> 0, virt |-> virt, count |-> 1,
                           ret |-> r.ret, failed |-> 0]
            /\ UNCHANGED <<outstanding, mm_last>>

\* the mapper mapping frame 0 as well as the frames of MapArgs
NextVMZero ==
    \/ VmMapPage /\ UNCHANGED heapvars
    \/ VmMapFrameZero /\ UNCHANGED heapvars
    \/ VmUnmapPage /\ UNCHANGED heapvars

SpecVMZero == InitVM /\ [][NextVMZero]_vars

(***************************************************************************)
(* SpecVMSteps: map_page store by store                                    *)
(* map_page_internal (paging.c:105-175) takes a frame for a missing table, *)
(* stores the entry that points to it (lines 125, 141, 157) and then       *)
(* clears the table (lines 128-131, 144-147, 160-163).  memory.c never     *)
(* clears a frame, so a frame mm_alloc_page returns holds whatever was     *)
(* left in it: vm_call.stale says that the table of the entry stored last  *)
(* still holds such words.                                                 *)
(***************************************************************************)
\* the entry of vm_call.virt at vm_call.level: 1 PML4, 2 PDP, 3 PD
WalkEntry ==
    IF vm_call.level = 1 THEN get_pml4_entry(vm_call.virt)
    ELSE IF vm_call.level = 2 THEN get_pdp_entry(vm_call.virt)
    ELSE get_pd_entry(vm_call.virt)

\* map_page up to the test of is_page_mapped; a page already mapped has its
\* leaf entry rewritten and the call returns
MapEnter ==
    /\ vm_call.pc = "idle"
    /\ \E a \in MapArgs, virt \in VirtPages :
        IF is_page_mapped(pt_mem, virt)
        THEN /\ pt_mem' = MemWrite(pt_mem, get_pt_entry(virt),
                                   LeafWord(AndPageMask(AddrW(a.phys)), EntryFlags(a.flags)))
             /\ vm_last' = [op |-> "map_page", phys |-> a.phys, virt |-> virt,
                            count |-> 1, ret |-> 0, failed |-> 0]
             /\ UNCHANGED <<tlb, vm_call, mmvars>>
        ELSE /\ vm_call' = [pc |-> "walk", physw |-> AndPageMask(AddrW(a.phys)),
                            virt |-> virt, flags |-> EntryFlags(a.flags), level |-> 1,
                            stale |-> FALSE]
             /\ vm_last' = [op |-> "map_page", phys |-> a.phys, virt |-> virt,
                            count |-> 1, ret |-> 0, failed |-> 0]
             /\ UNCHANGED <<pt_mem, tlb, mmvars>>

\* "if (!(*entry & PF_PRESENT)) { frame = alloc_physical_page(); if (!frame)
\* return -1; *entry = frame | P | W | U;" at the level the walk has reached
MapInstall ==
    /\ vm_call.pc = "walk"
    /\ vm_call.level <= 3
    /\ IF Present(pt_mem, WalkEntry)
       THEN /\ vm_call' = [vm_call EXCEPT !.level = @ + 1]
            /\ UNCHANGED <<pt_mem, tlb, vm_last, mmvars>>
       ELSE \E r \in {alloc_physical_page(MmState)} :
            /\ MmStore(r.s)
            /\ UNCHANGED <<outstanding, mm_last, mm_call, tlb>>
            /\ IF r.ret = 0
               THEN /\ vm_call' = VmIdle
                    /\ vm_last' = [vm_last EXCEPT !.ret = -1]
                    /\ pt_mem' = pt_mem
               ELSE /\ pt_mem' = MemWrite(pt_mem, WalkEntry,
                                          [AddrW(r.ret) EXCEPT
                                             !.lo = PF_PRESENT + PF_WRITABLE + PF_USER])
                    /\ \E stale \in BOOLEAN :
                          vm_call' = [vm_call EXCEPT !.pc = "installed", !.stale = stale]
                    /\ vm_last' = vm_last

\* "for (i = 0; i < 512; i++) table[i] = 0; }" for the entry just stored
MapClear ==
    /\ vm_call.pc = "installed"
    /\ pt_mem' = MemClearTable(pt_mem,
                               IF vm_call.level = 1 THEN "PDP"
                               ELSE IF vm_call.level = 2 THEN "PD" ELSE "PT",
                               IF vm_call.level = 1 THEN PdpTableOf(vm_call.virt)
                               ELSE IF vm_call.level = 2 THEN PdTableOf(vm_call.virt)
                               ELSE PtTableOf(vm_call.virt))
    /\ vm_call' = [vm_call EXCEPT !.pc = "walk", !.level = @ + 1, !.stale = FALSE]
    /\ UNCHANGED <<tlb, vm_last, mmvars>>

\* "*pt_entry = (phys_addr & PAGE_MASK) | flags; invlpg; return 0"
MapLeaf ==
    /\ vm_call.pc = "walk"
    /\ vm_call.level = 4
    /\ pt_mem' = MemWrite(pt_mem, get_pt_entry(vm_call.virt),
                          LeafWord(vm_call.physw, vm_call.flags))
    /\ tlb' = invlpg(tlb, vm_call.virt)
    /\ vm_call' = VmIdle
    /\ UNCHANGED <<vm_last, mmvars>>

NextVMSteps ==
    \/ MapEnter /\ UNCHANGED heapvars
    \/ MapInstall /\ UNCHANGED heapvars
    \/ MapClear /\ UNCHANGED heapvars
    \/ MapLeaf /\ UNCHANGED heapvars
    \/ vm_call.pc = "idle" /\ VmUnmapPage /\ UNCHANGED heapvars

SpecVMSteps == InitVM /\ [][NextVMSteps]_vars

(***************************************************************************)
(* SpecVMFlags: map_page with every portable flag                          *)
(***************************************************************************)
\* map_page with each PTE_* bit alone, with none, with all of them, and with
\* all of them plus PTE_PRESENT, PTE_ACCESSED, PTE_DIRTY and PTE_LARGE; of a
\* physical address on a page boundary or 0x123 above one.  vm_last also
\* records the flags asked for.
VmMapFlags ==
    \E lo \in {0, PTE_WRITABLE, PTE_USER, PTE_WRITE_THROUGH, PTE_CACHE_DISABLE, PTE_GLOBAL,
               PTE_WRITABLE + PTE_USER + PTE_WRITE_THROUGH + PTE_CACHE_DISABLE + PTE_GLOBAL,
               511},
       nx \in {0, 1}, phys \in {2097152, 3146019}, virt \in VirtPages :
        \E r \in {map_page(VmState, phys, virt, [nx |-> nx, lo |-> lo])} :
            /\ lo \in {0, 511} \/ nx = 0
            /\ VmStore(r.st)
            /\ vm_last' = [op |-> "map_page", phys |-> phys, virt |-> virt, count |-> 1,
                           ret |-> r.ret, failed |-> 0, flags |-> [nx |-> nx, lo |-> lo]]
            /\ UNCHANGED <<outstanding, mm_last>>

NextVMFlags ==
    \/ VmMapFlags /\ UNCHANGED heapvars
    \/ VmUnmapPage /\ UNCHANGED heapvars

SpecVMFlags == InitVM /\ [][NextVMFlags]_vars

(***************************************************************************)
(* Actions of SpecHeap                                                     *)
(***************************************************************************)
InitHeap ==
    /\ MmBoot
    /\ VmBoot
    /\ \E b \in HeapBoots :
          \E h \in {heap_init(HeapStatics(b.fill), b.start, b.size)} : HeapIs(h)
    /\ live = {}
    /\ heap_calls = 0
    /\ aligned_calls = 0
    /\ heap_last = [op |-> "heap_init", ptr |-> NULL, size |-> 0, alignment |-> 0,
                    ret |-> NULL]
    /\ heap_call = HeapIdle

\* a call can be made: no earlier call hung or went wild, and the bound on calls
CanCall == heap_halt = "" /\ heap_calls < MaxCalls

Called(aligned) ==
    /\ heap_call' = heap_call
    /\ heap_calls' = heap_calls + 1
    /\ aligned_calls' = aligned_calls + aligned

\* a pointer the caller holds: the pointer, the size asked for and the header
\* of the block that backs it
LivePtr(ptr, size, block) == [ptr |-> ptr, size |-> size, block |-> block]

Kmalloc ==
    /\ CanCall
    /\ Called(0)
    /\ Cardinality(live) < MaxLive
    /\ \E n \in KmallocSizes :
        \E r \in {kmalloc(HeapState, n)} :
            /\ HeapStore(r.h)
            /\ live' = IF r.ret = NULL THEN live
                       ELSE live \cup {LivePtr(r.ret, n, r.ret - SizeofHeader)}
            /\ heap_last' = [op |-> "kmalloc", ptr |-> NULL, size |-> n,
                             alignment |-> 0, ret |-> r.ret]

KmallocAligned ==
    /\ CanCall
    /\ Called(1)
    /\ Cardinality(live) < MaxLive
    /\ \E a \in AlignedArgs :
        \E r \in {kmalloc_aligned(HeapState, a.size, a.alignment)},
           raw \in {kmalloc(HeapState, a.size + a.alignment).ret} :
            /\ HeapStore(r.h)
            /\ live' = IF r.ret = NULL THEN live
                       ELSE live \cup {LivePtr(r.ret, a.size, raw - SizeofHeader)}
            /\ heap_last' = [op |-> "kmalloc_aligned", ptr |-> NULL, size |-> a.size,
                             alignment |-> a.alignment, ret |-> r.ret]

Kfree ==
    /\ CanCall
    /\ Called(0)
    /\ \E p \in live :
        /\ \E h \in {kfree(HeapState, p.ptr)} : HeapStore(h)
        /\ live' = live \ {p}
        /\ heap_last' = [op |-> "kfree", ptr |-> p.ptr, size |-> 0, alignment |-> 0,
                         ret |-> NULL]

Krealloc ==
    /\ CanCall
    /\ Called(0)
    /\ \E p \in live, n \in ReallocSizes :
        \E r \in {krealloc(HeapState, p.ptr, n)} :
            /\ HeapStore(r.h)
            /\ live' = IF r.ret = NULL THEN live
                       ELSE (live \ {p}) \cup
                            {LivePtr(r.ret, n, IF r.ret = p.ptr THEN p.block
                                               ELSE r.ret - SizeofHeader)}
            /\ heap_last' = [op |-> "krealloc", ptr |-> p.ptr, size |-> n,
                             alignment |-> 0, ret |-> r.ret]

NextHeap ==
    \/ Kmalloc /\ UNCHANGED <<mmvars, vmvars>>
    \/ KmallocAligned /\ UNCHANGED <<mmvars, vmvars>>
    \/ Kfree /\ UNCHANGED <<mmvars, vmvars>>
    \/ Krealloc /\ UNCHANGED <<mmvars, vmvars>>

SpecHeap == InitHeap /\ [][NextHeap]_vars

(***************************************************************************)
(* Actions of SpecHeapMisuse: callers that hand kfree a pointer it must    *)
(* reject                                                                  *)
(***************************************************************************)
\* kfree of the pointer the call before has just freed
KfreeAgain ==
    /\ CanCall
    /\ Called(0)
    /\ heap_last.op = "kfree"
    /\ \E h \in {kfree(HeapState, heap_last.ptr)} : HeapStore(h)
    /\ live' = live
    /\ heap_last' = [op |-> "kfree_again", ptr |-> heap_last.ptr, size |-> 0,
                     alignment |-> 0, ret |-> NULL]

\* kfree of a pointer into the payload of a live allocation: the four words
\* before it are no header
KfreeInside ==
    /\ CanCall
    /\ Called(0)
    /\ \E p \in live :
        /\ \E h \in {kfree(HeapState, p.ptr + SizeofWord)} : HeapStore(h)
        /\ live' = live
        /\ heap_last' = [op |-> "kfree_inside", ptr |-> p.ptr + SizeofWord, size |-> 0,
                         alignment |-> 0, ret |-> NULL]

NextHeapMisuse ==
    \/ Kmalloc /\ UNCHANGED <<mmvars, vmvars>>
    \/ Kfree /\ UNCHANGED <<mmvars, vmvars>>
    \/ KfreeAgain /\ UNCHANGED <<mmvars, vmvars>>
    \/ KfreeInside /\ UNCHANGED <<mmvars, vmvars>>

SpecHeapMisuse == InitHeap /\ [][NextHeapMisuse]_vars

(***************************************************************************)
(* Actions of SpecHeap8K: kmalloc and kfree on an arena of 8192 bytes      *)
(***************************************************************************)
\* heap_init(0x100000, 8192) on memory that holds zeros or stale headers
InitHeap8K ==
    /\ MmBoot
    /\ VmBoot
    /\ \E fill \in {HWord(0, 0), HWord(HEAP_MAGIC, 0)} :
          \E h \in {heap_init(HeapStatics(fill), 1048576, 8192)} : HeapIs(h)
    /\ live = {}
    /\ heap_calls = 0
    /\ aligned_calls = 0
    /\ heap_last = [op |-> "heap_init", ptr |-> NULL, size |-> 0, alignment |-> 0,
                    ret |-> NULL]
    /\ heap_call = HeapIdle

\* kmalloc of 50, 100 or 200 bytes
KmallocSmall ==
    /\ CanCall
    /\ Called(0)
    /\ Cardinality(live) < MaxLive
    /\ \E n \in {50, 100, 200} :
        \E r \in {kmalloc(HeapState, n)} :
            /\ HeapStore(r.h)
            /\ live' = IF r.ret = NULL THEN live
                       ELSE live \cup {LivePtr(r.ret, n, r.ret - SizeofHeader)}
            /\ heap_last' = [op |-> "kmalloc", ptr |-> NULL, size |-> n,
                             alignment |-> 0, ret |-> r.ret]

NextHeap8K ==
    \/ KmallocSmall /\ UNCHANGED <<mmvars, vmvars>>
    \/ Kfree /\ UNCHANGED <<mmvars, vmvars>>

SpecHeap8K == InitHeap8K /\ [][NextHeap8K]_vars

(***************************************************************************)
(* Actions of SpecHeapAligned: kmalloc_aligned with good and bad           *)
(* alignments, kmalloc and kfree                                           *)
(***************************************************************************)
\* kmalloc_aligned with an alignment that is zero or no power of two
KmallocAlignedBad ==
    /\ CanCall
    /\ Called(1)
    /\ \E alignment \in {0, 24} :
        \E r \in {kmalloc_aligned(HeapState, 16, alignment)} :
            /\ HeapStore(r.h)
            /\ live' = live
            /\ heap_last' = [op |-> "kmalloc_aligned", ptr |-> NULL, size |-> 16,
                             alignment |-> alignment, ret |-> r.ret]

NextHeapAligned ==
    \/ Kmalloc /\ UNCHANGED <<mmvars, vmvars>>
    \/ KmallocAligned /\ UNCHANGED <<mmvars, vmvars>>
    \/ KmallocAlignedBad /\ UNCHANGED <<mmvars, vmvars>>
    \/ Kfree /\ UNCHANGED <<mmvars, vmvars>>

SpecHeapAligned == InitHeap /\ [][NextHeapAligned]_vars

(***************************************************************************)
(* SpecHeapIrq: heap.c with an interrupt handler that calls kmalloc/kfree  *)
(* heap.c neither masks interrupts nor takes a lock, so a handler can run  *)
(* inside heap_allocate_block between the return of heap_find_free_block   *)
(* (line 373) and the unlinking of the block found (lines 382-391).  The   *)
(* handler itself runs to completion.                                      *)
(***************************************************************************)
\* the main path's kmalloc(n) up to the return of heap_find_free_block
KmallocFind ==
    /\ CanCall
    /\ heap_call.pc = "idle"
    /\ Cardinality(live) < MaxLive
    /\ heap_calls' = heap_calls + 1
    /\ \E n \in KmallocSizes :
        \E size \in {IF AlignUp(n, HEAP_ALIGN) < HEAP_MIN_ALLOC THEN HEAP_MIN_ALLOC
                     ELSE AlignUp(n, HEAP_ALIGN)} :
        \E f \in {heap_find_free_block(HeapState, size)} :
            IF f.hang \/ f.blk = NULL
            THEN /\ HeapStore([HeapState EXCEPT !.halt = IF f.hang THEN "hang" ELSE @])
                 /\ heap_last' = [op |-> "kmalloc", ptr |-> NULL, size |-> n,
                                  alignment |-> 0, ret |-> NULL]
                 /\ UNCHANGED <<live, aligned_calls, heap_call>>
            ELSE /\ heap_call' = [pc |-> "found", size |-> size, block |-> f.blk,
                                  irq |-> {}]
                 /\ HeapStore(HeapState)
                 /\ UNCHANGED <<live, aligned_calls, heap_last>>

\* the main path from there: unlink, split, clear BLOCK_FREE, return
KmallocTake ==
    /\ heap_halt = ""
    /\ heap_call.pc = "found"
    /\ \E r \in {AllocateFound(HeapState, heap_call.block, heap_call.size)} :
        /\ HeapStore(r.h)
        /\ live' = live \cup {LivePtr(r.ret, heap_call.size, heap_call.block)}
        /\ heap_last' = [op |-> "kmalloc", ptr |-> NULL, size |-> heap_call.size,
                         alignment |-> 0, ret |-> r.ret]
    /\ heap_call' = HeapIdle
    /\ UNCHANGED <<heap_calls, aligned_calls>>

\* an interrupt handler calls kmalloc; heap_call.irq collects the pointers it
\* is given while the main path's call is in progress
IrqKmalloc ==
    /\ CanCall
    /\ Cardinality(live) < MaxLive
    /\ heap_calls' = heap_calls + 1
    /\ \E n \in KmallocSizes :
        \E r \in {kmalloc(HeapState, n)} :
            /\ HeapStore(r.h)
            /\ live' = IF r.ret = NULL THEN live
                       ELSE live \cup {LivePtr(r.ret, n, r.ret - SizeofHeader)}
            /\ heap_last' = [op |-> "kmalloc", ptr |-> NULL, size |-> n,
                             alignment |-> 0, ret |-> r.ret]
            /\ heap_call' = IF heap_call.pc = "found" /\ r.ret # NULL
                            THEN [heap_call EXCEPT !.irq = @ \cup {r.ret}]
                            ELSE heap_call
    /\ UNCHANGED aligned_calls

\* kfree is called by the main path between its calls and by the handler at
\* any point
NextHeapIrq ==
    \/ KmallocFind /\ UNCHANGED <<mmvars, vmvars>>
    \/ KmallocTake /\ UNCHANGED <<mmvars, vmvars>>
    \/ IrqKmalloc /\ UNCHANGED <<mmvars, vmvars>>
    \/ Kfree /\ UNCHANGED <<mmvars, vmvars>>

SpecHeapIrq == InitHeap /\ [][NextHeapIrq]_vars

(***************************************************************************)
(* SpecHeapRealloc: krealloc calls that cannot be served                   *)
(***************************************************************************)
\* krealloc to a size above HEAP_MAX_ALLOC, or to 4040 bytes, which no block of
\* the arena can hold while another block is allocated
KreallocLarge ==
    /\ CanCall
    /\ Called(0)
    /\ \E p \in live, n \in {4040, HEAP_MAX_ALLOC + 1} :
        \E r \in {krealloc(HeapState, p.ptr, n)} :
            /\ HeapStore(r.h)
            /\ live' = IF r.ret = NULL THEN live
                       ELSE (live \ {p}) \cup {LivePtr(r.ret, n, r.ret - SizeofHeader)}
            /\ heap_last' = [op |-> "krealloc", ptr |-> p.ptr, size |-> n,
                             alignment |-> 0, ret |-> r.ret]

NextHeapRealloc ==
    \/ Kmalloc /\ UNCHANGED <<mmvars, vmvars>>
    \/ Kfree /\ UNCHANGED <<mmvars, vmvars>>
    \/ Krealloc /\ UNCHANGED <<mmvars, vmvars>>
    \/ KreallocLarge /\ UNCHANGED <<mmvars, vmvars>>

SpecHeapRealloc == InitHeap /\ [][NextHeapRealloc]_vars


(***************************************************************************)
(* Claims about the frame allocator (checked under SpecMM)                 *)
(***************************************************************************)

\* C4: after mm_init and any sequence of alloc and free calls, also ones that
\* free a frame that is already free, mm_get_free_pages() equals total_pages
\* minus the number of set bits among the bitmap indices [0, total_pages).
C4_FreeCountMatchesBitmap == mm_get_free_pages = total_pages - Popcount

\* C5: a frame handed out by mm_alloc_page or mm_alloc_pages is not handed out
\* again while no free call has named it: every successful allocation returns
\* frames none of which is outstanding.
C5_NoDoubleAllocation ==
    [][ (mm_last'.op \in {"mm_alloc_page", "mm_alloc_pages"} /\ mm_last'.ret # 0)
          => FramesOf(mm_last'.ret, mm_last'.n) \cap outstanding = {} ]_vars

\* an allocation has just returned a frame while frames of earlier
\* allocations are still outstanding
C5_Witness ==
    /\ mm_last.op = "mm_alloc_page"
    /\ mm_last.ret # 0
    /\ Cardinality(outstanding) >= 3

\* a run of n free frames starting at index b, inside [0, total_pages)
FreeRunAt(b, n) ==
    /\ b + n <= total_pages
    /\ \A i \in 0..(n - 1) : ~bitmap_test(page_bitmap, b + i)

\* C6: mm_alloc_pages(n), n >= 1, either returns the base of n consecutive
\* frames below total_pages that were all free before the call and are all
\* allocated after it, or returns 0, and that only when [0, total_pages)
\* holds no run of n free frames.
C6_ContiguousRun ==
    [][ mm_last'.op = "mm_alloc_pages" =>
          IF mm_last'.ret # 0
          THEN \A f \in FramesOf(mm_last'.ret, mm_last'.n) :
                  /\ f < total_pages
                  /\ ~bitmap_test(page_bitmap, f)
                  /\ bitmap_test(page_bitmap', f)
          ELSE ~ \E b \in 0..(total_pages - 1) : FreeRunAt(b, mm_last'.n) ]_vars

(***************************************************************************)
(* Claims about the mapper (checked under SpecVM)                          *)
(***************************************************************************)

\* C7: when map_page(phys, virt, flags) on page-aligned addresses returns 0,
\* right afterwards is_page_mapped(virt) is true and
\* virtual_to_physical(virt + k) = phys + k for the offsets k of the page.
C7_MapTranslateRoundTrip ==
    (vm_last.op = "map_page" /\ vm_last.ret = 0) =>
        /\ is_page_mapped(pt_mem, vm_last.virt)
        /\ \A k \in PageOffsets :
              virtual_to_physical(pt_mem, vm_last.virt + k) = AddrW(vm_last.phys + k)

\* C8: after unmap_page(virt) returns 0 the page is not mapped and
\* virtual_to_physical(virt) reports not-mapped (0); a map_page(phys2, virt,
\* flags) that follows succeeds and virtual_to_physical(virt) is then phys2.
C8_UnmapThenRemap ==
    [][ /\ (vm_last'.op = "unmap_page" /\ vm_last'.ret = 0) =>
              /\ ~is_page_mapped(pt_mem', vm_last'.virt)
              /\ virtual_to_physical(pt_mem', vm_last'.virt) = ZeroW
        /\ (/\ vm_last.op = "unmap_page" /\ vm_last.ret = 0
            /\ vm_last'.op = "map_page" /\ vm_last'.virt = vm_last.virt) =>
              /\ vm_last'.ret = 0
              /\ virtual_to_physical(pt_mem', vm_last'.virt) = AddrW(vm_last'.phys) ]_vars

\* C9: when map_pages fails at page i > 0, none of the pages virt, ...,
\* virt + (i-1) * PAGE_SIZE is mapped when it returns.
C9_MapPagesRollback ==
    (vm_last.op = "map_pages" /\ vm_last.ret # 0 /\ vm_last.failed > 0) =>
        \A j \in 0..(vm_last.failed - 1) :
            ~is_page_mapped(pt_mem, vm_last.virt + j * PAGE_SIZE)

\* C10: after a map_page that returned 0, remaps included, the TLB holds no
\* translation of virt_addr that differs from the leaf entry.
C10_MapInvalidatesTlb ==
    (vm_last.op = "map_page" /\ vm_last.ret = 0 /\ vm_last.virt \in DOMAIN tlb) =>
        tlb[vm_last.virt] = MemRead(pt_mem, get_pt_entry(vm_last.virt))

(***************************************************************************)
(* Claims about the heap (checked under SpecHeap)                          *)
(***************************************************************************)

\* the bytes [lo1, hi1) and [lo2, hi2) do not meet
Apart(lo1, hi1, lo2, hi2) == hi1 <= lo2 \/ hi2 <= lo1

LivePayloadsApart ==
    \A p \in live :
        /\ p.ptr >= heap_start
        /\ p.ptr + p.size <= heap_end
        /\ \A q \in live \ {p} : Apart(p.ptr, p.ptr + p.size, q.ptr, q.ptr + q.size)

\* a call that returned fresh memory returned none of a block still allocated
ReturnsFreshMemory ==
    (/\ heap_last'.op \in {"kmalloc", "kmalloc_aligned", "krealloc"}
     /\ heap_last'.ret # NULL
     /\ heap_last'.ret # heap_last'.ptr) =>
        \A q \in live :
            Apart(heap_last'.ret, heap_last'.ret + heap_last'.size,
                  q.block, q.ptr + q.size)

\* the words of q's header and payload
WordsOf(q) ==
    {q.block + SizeofWord * k : k \in 0..3} \cup
    {a \in (DOMAIN heap_mem) \cup (DOMAIN heap_mem') : a >= q.ptr /\ a < q.ptr + q.size}

KfreeLeavesOthersAlone ==
    heap_last'.op = "kfree" =>
        \A q \in live' : \A a \in WordsOf(q) :
            Load(HeapState, a) = Load([HeapState EXCEPT !.mem = heap_mem'], a)

\* C1: the payloads of the live pointers are pairwise disjoint and inside the
\* arena; no allocating call returns memory of a block that is still
\* allocated; kfree(p) changes no word of the header or payload of another
\* live allocation.  Stated for the runs of kmalloc, kfree and krealloc that
\* never call kmalloc_aligned: in them no call reads a word heap.c has not
\* written, so what the arena held before heap_init plays no part.
C1_LiveAllocationsIntact ==
    /\ [](aligned_calls = 0 => LivePayloadsApart)
    /\ [][aligned_calls' = 0 => (ReturnsFreshMemory /\ KfreeLeavesOthersAlone)]_vars

\* the sum of (header size + size) over the blocks walked from b up to the
\* block marked Last; -1 when the walk leaves the arena before it meets one
RECURSIVE TilingFrom(_, _)
TilingFrom(h, b) ==
    IF b < h.heap_start \/ b + SizeofHeader > h.heap_end THEN -1
    ELSE IF blk_size(h, b) > h.heap_size THEN -1
    ELSE LET ext == SizeofHeader + blk_size(h, b)
             rest == TilingFrom(h, b + ext)
         IN  IF HasFlag(blk_flags(h, b), BLOCK_LAST) THEN ext
             ELSE IF rest = -1 THEN -1
             ELSE ext + rest

\* C2: in every state reached by kmalloc, kfree and krealloc calls, walking
\* the physical blocks from heap_start reaches a block marked Last, and the
\* headers and sizes of the blocks walked add up to heap_size.
C2_ArenaTiling ==
    aligned_calls = 0 => TilingFrom(HeapState, heap_start) = heap_size

\* some block met walking from b is Free and so is the block right after it
RECURSIVE AdjacentFreeFrom(_, _)
AdjacentFreeFrom(h, b) ==
    IF b < h.heap_start \/ b + SizeofHeader > h.heap_end THEN FALSE
    ELSE IF blk_size(h, b) > h.heap_size THEN FALSE
    ELSE IF HasFlag(blk_flags(h, b), BLOCK_LAST) THEN FALSE
    ELSE LET nb == b + SizeofHeader + blk_size(h, b)
         IN  \/ /\ HasFlag(blk_flags(h, b), BLOCK_FREE)
                /\ nb + SizeofHeader <= h.heap_end
                /\ HasFlag(blk_flags(h, nb), BLOCK_FREE)
             \/ AdjacentFreeFrom(h, nb)

\* C3: when a kfree call has completed, no two physically adjacent blocks of
\* the arena are both Free.
C3_Coalesced ==
    heap_last.op = "kfree" => ~AdjacentFreeFrom(HeapState, heap_start)

\* the header in front of ptr is no block kfree may free: its magic is not
\* HEAP_MAGIC or the block is already Free
RejectedByKfree(h, ptr) ==
    \/ blk_magic(h, ptr - SizeofHeader) # HEAP_MAGIC
    \/ HasFlag(blk_flags(h, ptr - SizeofHeader), BLOCK_FREE)

\* C11: a kfree(ptr) whose block is already Free, or whose header magic is not
\* HEAP_MAGIC, does not return to the caller: it ends in the panic path.
C11_KfreePanics ==
    [][ (/\ heap_last'.op \in {"kfree", "kfree_again", "kfree_inside"}
         /\ RejectedByKfree(HeapState, heap_last'.ptr))
          => heap_halt' = "panic" ]_vars

\* C12: mm_free_page(addr) on a managed frame whose bit is already clear
\* panics instead of returning to the caller.
C12_DoubleFreePanics ==
    [][ (mm_last'.op = "mm_free_page" /\ mm_last'.refree) => mm_halt' = "panic" ]_vars

\* the headers met walking the physical blocks from b up to the block marked
\* Last (or up to the end of the arena)
RECURSIVE BlocksFrom(_, _)
BlocksFrom(h, b) ==
    IF b < h.heap_start \/ b + SizeofHeader > h.heap_end THEN {}
    ELSE IF blk_size(h, b) > h.heap_size THEN {b}
    ELSE IF HasFlag(blk_flags(h, b), BLOCK_LAST) THEN {b}
    ELSE {b} \cup BlocksFrom(h, b + SizeofHeader + blk_size(h, b))

\* the Free blocks of the arena that can hold size bytes
FreeFits(h, size) ==
    {b \in BlocksFrom(h, h.heap_start) :
        HasFlag(blk_flags(h, b), BLOCK_FREE) /\ blk_size(h, b) >= size}

\* the blocks of the free list from b on, in list order, at most n of them
RECURSIVE ListFrom(_, _, _)
ListFrom(h, b, n) ==
    IF b = NULL \/ n = 0 THEN <<>>
    ELSE <<b>> \o ListFrom(h, blk_next(h, b), n - 1)

\* what kmalloc rounds a request to
Rounded(size) ==
    IF AlignUp(size, HEAP_ALIGN) < HEAP_MIN_ALLOC THEN HEAP_MIN_ALLOC
    ELSE AlignUp(size, HEAP_ALIGN)

\* C13: a kmalloc(n) that succeeds takes a Free block whose size is the least
\* among the Free blocks of the arena that hold the rounded request, the first
\* such block of the free list when several have that size; a kmalloc(n) that
\* returns NULL finds no Free block of the arena that holds the rounded
\* request.  Stated for the states in which the arena is tiled and for runs
\* without kmalloc_aligned.
C13_BestFit ==
    [][ (/\ heap_last'.op = "kmalloc"
         /\ aligned_calls' = 0
         /\ TilingFrom(HeapState, heap_start) = heap_size) =>
          LET h     == HeapState
              req   == Rounded(heap_last'.size)
              fits  == FreeFits(h, req)
              block == heap_last'.ret - SizeofHeader
              list  == ListFrom(h, free_list, MaxCalls + 2)
          IN  IF heap_last'.ret = NULL THEN fits = {}
              ELSE /\ block \in fits
                   /\ \A b \in fits : blk_size(h, block) <= blk_size(h, b)
                   /\ \E i \in 1..Len(list) :
                         /\ list[i] = block
                         /\ \A j \in 1..(i - 1) :
                               ~(list[j] \in fits
                                 /\ blk_size(h, list[j]) = blk_size(h, block)) ]_vars

\* the indices of the free frames: 0 bits with index in [0, total_pages)
FreeFrames == { i \in page_bitmap : i < total_pages }

\* C14: mm_alloc_page is first-fit.  When a frame with index in
\* [0, total_pages) is free the call returns the address of the lowest such
\* frame, sets its bit and nothing else, and lowers the free count by one;
\* when none is free it returns 0 and changes neither the bitmap nor the
\* counts.
C14_FirstFit ==
    [][ mm_last'.op = "mm_alloc_page" =>
          IF FreeFrames # {}
          THEN /\ mm_last'.ret = Min(FreeFrames) * PAGE_SIZE
               /\ page_bitmap' = page_bitmap \ {Min(FreeFrames)}
               /\ total_pages' - used_pages' = (total_pages - used_pages) - 1
               /\ total_pages' = total_pages
          ELSE /\ mm_last'.ret = 0
               /\ page_bitmap' = page_bitmap
               /\ total_pages' = total_pages
               /\ used_pages' = used_pages ]_vars

\* the bits of the frames below managed_memory_start are all 1
LowFramesSet == \A i \in 0..(managed_memory_start \div PAGE_SIZE - 1) : bitmap_test(page_bitmap, i)

\* C15: the frames below managed_memory_start stay allocated.  Their bits are
\* set after mm_init and after every call; mm_free_page (and mm_free_pages
\* over a range that ends below the start) with an address below
\* managed_memory_start changes neither the bitmap nor the counts; an
\* allocation that returns a frame returns one at or above the start.
C15_LowMemoryReserved ==
    /\ LowFramesSet
    /\ [][ /\ LowFramesSet'
           /\ (/\ mm_last'.op \in {"mm_free_page", "mm_free_pages"}
               /\ mm_last'.addr + mm_last'.n * PAGE_SIZE <= managed_memory_start)
                 => /\ page_bitmap' = page_bitmap
                    /\ used_pages' = used_pages
                    /\ total_pages' = total_pages
           /\ (/\ mm_last'.op \in {"mm_alloc_page", "mm_alloc_pages"}
               /\ mm_last'.ret # 0)
                 => mm_last'.ret >= managed_memory_start ]_vars

\* a free of a frame below the start has been called while frames handed out
\* by the allocator are outstanding
C15_Witness ==
    /\ mm_last.op = "mm_free_page"
    /\ mm_last.addr < managed_memory_start
    /\ outstanding # {}
    /\ LowFramesSet

\* a table on the walk to virt is missing
TableMissing(m, virt) ==
    \/ ~Present(m, get_pml4_entry(virt))
    \/ ~Present(m, get_pdp_entry(virt))
    \/ ~Present(m, get_pd_entry(virt))

\* C16: map_page on a page whose leaf entry is present returns 0, stores the
\* new leaf word, and virtual_to_physical(virt) is the new physical address
\* afterwards; a map_page that fails met a missing table and an allocator
\* that had no frame left.
C16_RemapNeverFails ==
    [][ vm_last'.op = "map_page" =>
          /\ is_page_mapped(pt_mem, vm_last'.virt) =>
                /\ vm_last'.ret = 0
                /\ \E a \in MapArgs :
                      /\ a.phys = vm_last'.phys
                      /\ MemRead(pt_mem', get_pt_entry(vm_last'.virt))
                           = LeafWord(AddrW(a.phys), EntryFlags(a.flags))
                /\ virtual_to_physical(pt_mem', vm_last'.virt) = AddrW(vm_last'.phys)
          /\ vm_last'.ret # 0 =>
                /\ TableMissing(pt_mem', vm_last'.virt)
                /\ bitmap_find_free(page_bitmap', page_bitmap_entries') = NoIndex ]_vars

\* the page-table words that differ between the memories m1 and m2
ChangedEntries(m1, m2) ==
    { e \in DOMAIN m1 \cup DOMAIN m2 : MemRead(m1, e) # MemRead(m2, e) }

\* a step of unmap_page (a step of the CPU filling its TLB leaves vm_last and
\* the page tables alone)
UnmapStep == vm_last' # vm_last \/ pt_mem' # pt_mem

\* C17: unmap_page(virt) on a page that is not mapped returns -1 and changes
\* no page-table entry and nothing of the frame allocator; on a mapped page
\* it returns 0, changes the leaf entry of virt (to 0) and no other entry,
\* leaves the tables on the walk present and frees no frame.
C17_UnmapEffects ==
    [][ (vm_last'.op = "unmap_page" /\ UnmapStep) =>
          /\ page_bitmap' = page_bitmap
          /\ used_pages' = used_pages
          /\ total_pages' = total_pages
          /\ IF ~is_page_mapped(pt_mem, vm_last'.virt)
             THEN /\ vm_last'.ret = -1
                  /\ ChangedEntries(pt_mem, pt_mem') = {}
             ELSE /\ vm_last'.ret = 0
                  /\ ChangedEntries(pt_mem, pt_mem') = {get_pt_entry(vm_last'.virt)}
                  /\ MemRead(pt_mem', get_pt_entry(vm_last'.virt)) = ZeroW
                  /\ ~TableMissing(pt_mem', vm_last'.virt) ]_vars

\* unmap_page has just unmapped a mapped page; its tables are still there
C17_Witness ==
    /\ vm_last.op = "unmap_page"
    /\ vm_last.ret = 0
    /\ ~TableMissing(pt_mem, vm_last.virt)
    /\ ~is_page_mapped(pt_mem, vm_last.virt)

\* C18: virtual_to_physical and is_page_mapped agree: for every address,
\* virtual_to_physical reports "not mapped" (its result 0) exactly when
\* is_page_mapped is false; an address that is mapped, to physical frame 0
\* too, is not reported as not mapped.  (Both are functions of the page
\* tables that store nothing.)
C18_TranslateAgreesWithIsMapped ==
    \A virt \in VirtPages, k \in PageOffsets :
        (virtual_to_physical(pt_mem, virt + k) = ZeroW) <=> ~is_page_mapped(pt_mem, virt + k)

\* C19: after mm_init on a machine with 16 MiB of memory and the managed
\* start at 1 MiB, mm_get_total_pages() is (16 MiB - 1 MiB) / 4096 = 3840,
\* and the first mm_alloc_page() returns 0x100000 (no kernel image or bitmap
\* frame is reserved there).
C19_SixteenMiB ==
    /\ mm_get_total_pages = (Boot16.mem_upper * 1024 - managed_memory_start) \div PAGE_SIZE
    /\ [][ (mm_last.op = "mm_init" /\ mm_last'.op = "mm_alloc_page") =>
              mm_last'.ret = managed_memory_start ]_vars

\* the heap after heap_init, p1 = kmalloc(100), p2 = kmalloc(200), kfree(p1):
\* three calls made, p1 (the first payload of the arena, 104 bytes once
\* rounded) freed last, p2 the one live pointer
AfterScenarioFree ==
    /\ heap_calls = 3
    /\ heap_last.op = "kfree"
    /\ heap_last.ptr = heap_start + SizeofHeader
    /\ blk_size(HeapState, heap_start) = Rounded(100)
    /\ live = {LivePtr(heap_start + 2 * SizeofHeader + Rounded(100), 200,
                       heap_start + SizeofHeader + Rounded(100))}

\* C20: on an arena of 8192 bytes, after p1 = kmalloc(100), p2 = kmalloc(200),
\* kfree(p1), the call p3 = kmalloc(50) returns p1, leaves the block at p3
\* with the rounded request as its size and a new Free block behind it, and
\* leaves the trailing Free block as it was.
C20_ReuseBySplitting ==
    [][ (/\ AfterScenarioFree
         /\ heap_size = 8192
         /\ heap_last'.op = "kmalloc"
         /\ heap_last'.size = 50) =>
          LET h     == HeapState
              p1    == heap_last.ptr
              rest  == heap_start + SizeofHeader + Rounded(50)
              trail == heap_start + 2 * SizeofHeader + Rounded(100) + Rounded(200)
          IN  /\ heap_last'.ret = p1
              /\ blk_size(h, heap_start)' = Rounded(50)
              /\ blk_magic(h, rest)' = HEAP_MAGIC
              /\ HasFlag(blk_flags(h, rest)', BLOCK_FREE)
              /\ blk_size(h, trail)' = blk_size(h, trail)
              /\ blk_flags(h, trail)' = blk_flags(h, trail) ]_vars

\* the block that physically follows block b
PhysNext(h, b) == b + SizeofHeader + blk_size(h, b)

\* krealloc(ptr, size) is asked to grow an allocated block whose physical
\* successor is Free and large enough to cover the new size with it
CanGrowInPlace(h, ptr, size) ==
    LET b == ptr - SizeofHeader
    IN  /\ blk_magic(h, b) = HEAP_MAGIC
        /\ ~HasFlag(blk_flags(h, b), BLOCK_FREE)
        /\ ~HasFlag(blk_flags(h, b), BLOCK_LAST)
        /\ size > blk_size(h, b)
        /\ blk_magic(h, PhysNext(h, b)) = HEAP_MAGIC
        /\ HasFlag(blk_flags(h, PhysNext(h, b)), BLOCK_FREE)
        /\ blk_size(h, b) + SizeofHeader + blk_size(h, PhysNext(h, b)) >= size

\* C21: krealloc(ptr, new_size) with new_size above the block's size, the
\* physically next block Free and the two together covering new_size returns
\* ptr itself: the block grows in place.
C21_GrowInPlace ==
    [][ (/\ heap_last'.op = "krealloc"
         /\ aligned_calls' = 0
         /\ CanGrowInPlace(HeapState, heap_last'.ptr, heap_last'.size)) =>
            heap_last'.ret = heap_last'.ptr ]_vars

\* the headers met walking the arena from b by the sizes of the blocks, up to
\* the end of the arena
RECURSIVE ChainFrom(_, _)
ChainFrom(h, b) ==
    IF b < h.heap_start \/ b + SizeofHeader > h.heap_end THEN {}
    ELSE IF blk_size(h, b) > h.heap_size THEN {b}
    ELSE {b} \cup ChainFrom(h, PhysNext(h, b))

\* the blocks of the arena that are flagged Free
FreeBlocks(h) == {b \in ChainFrom(h, h.heap_start) : HasFlag(blk_flags(h, b), BLOCK_FREE)}

\* no arena of the model holds this many blocks
ManyBlocks == 2 * MaxCalls + 2

\* the free list is finite and without repetition
ListAcyclic(h) ==
    \E list \in {ListFrom(h, h.free_list, ManyBlocks)} :
        /\ Len(list) < ManyBlocks
        /\ \A i, j \in 1..Len(list) : list[i] = list[j] => i = j

\* the blocks on the free list are exactly the Free blocks of the arena
FreeListExact(h) ==
    /\ ListAcyclic(h)
    /\ \E list \in {ListFrom(h, h.free_list, ManyBlocks)} :
          {list[i] : i \in 1..Len(list)} = FreeBlocks(h)

\* the blocks of the arena tile it
Tiled(h) == TilingFrom(h, h.heap_start) = h.heap_size

\* one block of the arena carries BLOCK_LAST: the one that ends at heap_end
LastMarkerOk(h) ==
    \E chain \in {ChainFrom(h, h.heap_start)} :
        /\ Cardinality({b \in chain : HasFlag(blk_flags(h, b), BLOCK_LAST)}) = 1
        /\ \A b \in chain :
              HasFlag(blk_flags(h, b), BLOCK_LAST) <=> PhysNext(h, b) = h.heap_end

WellFormed(h) == Tiled(h) /\ LastMarkerOk(h) /\ FreeListExact(h)

\* krealloc(ptr, size) is asked to shrink (or keep) an allocated block
CanShrink(h, ptr, size) ==
    /\ size > 0
    /\ blk_magic(h, ptr - SizeofHeader) = HEAP_MAGIC
    /\ ~HasFlag(blk_flags(h, ptr - SizeofHeader), BLOCK_FREE)
    /\ size <= blk_size(h, ptr - SizeofHeader)

\* C22: on a well-formed heap, krealloc(ptr, new_size) with new_size at most
\* the block's size returns ptr; a surplus of at least one header plus the
\* minimum payload becomes a Free block on the free list; the heap is tiled,
\* has its one Last marker and an exact free list afterwards; and the links
\* of no other block change (but for the prev of the block that headed the
\* free list, behind which the new block is inserted).
C22_ShrinkInPlace ==
    [][ (/\ heap_last'.op = "krealloc"
         /\ aligned_calls' = 0
         /\ WellFormed(HeapState)
         /\ CanShrink(HeapState, heap_last'.ptr, heap_last'.size)) =>
          \E h \in {HeapState}, b \in {heap_last'.ptr - SizeofHeader},
             rest \in {heap_last'.ptr + Rounded(heap_last'.size)} :
              /\ heap_last'.ret = heap_last'.ptr
              /\ (blk_size(h, b) - Rounded(heap_last'.size) >= SizeofHeader + HEAP_MIN_ALLOC
                    => /\ rest \in FreeBlocks(HeapState')
                       /\ \E i \in 1..ManyBlocks :
                             i <= Len(ListFrom(HeapState', free_list', ManyBlocks))
                             /\ ListFrom(HeapState', free_list', ManyBlocks)[i] = rest)
              /\ WellFormed(HeapState')
              /\ \A c \in ChainFrom(h, h.heap_start) \ {b} :
                    /\ blk_next(HeapState', c) = blk_next(h, c)
                    /\ (c # h.free_list => blk_prev(HeapState', c) = blk_prev(h, c)) ]_vars

\* block b is an allocated block of h
Allocated(h, b) == blk_magic(h, b) = HEAP_MAGIC /\ ~HasFlag(blk_flags(h, b), BLOCK_FREE)

\* C23: kmalloc_aligned with an alignment that is zero or no power of two
\* returns NULL and leaves the heap as it was; otherwise a result p that is
\* not NULL is a multiple of the alignment and [p, p + size) lies in the
\* payload of one allocated block; kfree(p) of a pointer of a well-formed
\* heap, shifted from the start of its block's payload or not, makes that
\* block Free and no other.
C23_AlignedAlloc ==
    [][ /\ (/\ heap_last'.op = "kmalloc_aligned"
            /\ (heap_last'.alignment = 0 \/ ~IsPowerOfTwo(heap_last'.alignment)))
              => /\ heap_last'.ret = NULL
                 /\ HeapState' = HeapState
        /\ (/\ heap_last'.op = "kmalloc_aligned"
            /\ heap_last'.alignment # 0 /\ IsPowerOfTwo(heap_last'.alignment)
            /\ heap_last'.ret # NULL)
              => /\ heap_last'.ret % heap_last'.alignment = 0
                 /\ \E p \in live' :
                       /\ p.ptr = heap_last'.ret
                       /\ Allocated(HeapState', p.block)
                       /\ p.block + SizeofHeader <= p.ptr
                       /\ p.ptr + heap_last'.size
                            <= p.block + SizeofHeader + blk_size(HeapState', p.block)
        /\ (/\ heap_last'.op = "kfree"
            /\ WellFormed(HeapState)
            /\ \A p \in live : Allocated(HeapState, p.block))
              => \A p \in live \ live' :
                    /\ p.block \in FreeBlocks(HeapState')
                    /\ \A q \in live' : Allocated(HeapState', q.block) ]_vars

\* C24: kmalloc(n) returns NULL and leaves the heap as it was when n is 0,
\* when n exceeds HEAP_MAX_ALLOC and when no Free block of the arena holds
\* the rounded request; a result p that is not NULL has
\* ksize(p) >= max(HEAP_MIN_ALLOC, n rounded up to a multiple of 8) >= n.
C24_KmallocResult ==
    [][ heap_last'.op = "kmalloc" =>
          /\ (\/ heap_last'.size = 0
              \/ heap_last'.size > HEAP_MAX_ALLOC
              \/ FreeFits(HeapState, Rounded(heap_last'.size)) = {})
                => /\ heap_last'.ret = NULL
                   /\ HeapState' = HeapState
          /\ heap_last'.ret # NULL
                => /\ ksize(HeapState', heap_last'.ret) >= Rounded(heap_last'.size)
                   /\ Rounded(heap_last'.size) >= HEAP_MIN_ALLOC
                   /\ Rounded(heap_last'.size) % HEAP_ALIGN = 0
                   /\ Rounded(heap_last'.size) >= heap_last'.size ]_vars

\* C25: when a main-path mm_alloc_page / mm_alloc_pages call returns, the frames
\* it returns are none of the frames an interrupt handler was given while the
\* call was in progress, and the call has counted in used_pages exactly the
\* bits it has turned from 0 to 1.
C25_AllocAtomic ==
    [][(mm_call.pc = "found" /\ mm_call'.pc = "idle") =>
          /\ FramesOf(mm_last'.ret, mm_call.n) \cap mm_call.irq = {}
          /\ used_pages' - used_pages
               = Cardinality(page_bitmap) - Cardinality(page_bitmap')]_vars

\* C26: when a main-path kmalloc returns, the pointer it returns is none of the
\* pointers an interrupt handler was given while the call was in progress, and
\* the heap is well formed (the blocks tile the arena, the last one alone
\* carries BLOCK_LAST, the free list holds exactly the Free blocks).
C26_HeapAtomic ==
    [][(heap_call.pc = "found" /\ heap_call'.pc = "idle") =>
          /\ heap_last'.ret \notin heap_call.irq
          /\ WellFormed(HeapState)']_vars

\* bits 47..51 of a page-table entry: the part of its frame-address field
\* (bits 12..51) that lies above pfn
FrameFieldHigh(w) == w.hi % 32

\* C27: entry RECURSIVE_MAPPING_INDEX of the PML4 is present and its
\* frame-address field is the physical address of the PML4.  The boot code
\* chooses that address; whichever it is, it is the address of a frame of
\* physical memory, so the field has bits 47..51 clear and names a frame below
\* total_pages.
C27_RecursiveSlot ==
    \E e \in {MemRead(pt_mem, <<"PML4", 8 * RECURSIVE_MAPPING_INDEX>>)} :
        /\ HasBit(e.lo, PF_PRESENT)
        /\ FrameFieldHigh(e) = 0
        /\ e.pfn < total_pages

\* C28: while only kmalloc, kfree and krealloc have been called, no call loops
\* for ever: the free list reachable from free_list through next links has no
\* cycle, and no scan of it has failed to end.
C28_Terminates ==
    aligned_calls = 0 => ListAcyclic(HeapState) /\ heap_halt # "hang"

\* C29: while only kmalloc, kfree and krealloc have been called, the blocks
\* reachable from free_list through next links are exactly the blocks of the
\* physical chain that carry BLOCK_FREE, each reached once.
C29_FreeListMembership == aligned_calls = 0 => FreeListExact(HeapState)

\* C30: while only kmalloc, kfree and krealloc have been called, exactly one
\* block of the physical chain carries BLOCK_LAST, and it is the block that
\* ends at heap_end.
C30_LastMarker == aligned_calls = 0 => LastMarkerOk(HeapState)

\* C31: at no step of map_page is the entry of a table it has created present
\* while that table still holds the words the frame held when it was allocated.
C31_ZeroedBeforePresent ==
    vm_call.pc = "installed" => ~(Present(pt_mem, WalkEntry) /\ vm_call.stale)

\* the hardware bits of the portable flags asked for, besides PF_PRESENT
HardwareBits(lo) ==
    (IF HasBit(lo, PTE_WRITABLE) THEN PF_WRITABLE ELSE 0)
    + (IF HasBit(lo, PTE_USER) THEN PF_USER ELSE 0)
    + (IF HasBit(lo, PTE_WRITE_THROUGH) THEN PF_WRITE_THROUGH ELSE 0)
    + (IF HasBit(lo, PTE_CACHE_DISABLE) THEN PF_CACHE_DISABLE ELSE 0)
    + (IF HasBit(lo, PTE_GLOBAL) THEN PF_GLOBAL ELSE 0)

\* C32: after a map_page that succeeds, every non-leaf entry of the page that
\* was not present before the call holds exactly present + writable + user (and
\* not no-execute), and the leaf entry holds present, exactly the hardware bits
\* of the flags asked for, and phys_addr rounded down to the page boundary.
C32_FlagHandling ==
    [][(vm_last'.op = "map_page" /\ vm_last'.ret = 0 /\ vm_last' # vm_last) =>
          /\ \A e \in {get_pml4_entry(vm_last'.virt), get_pdp_entry(vm_last'.virt),
                        get_pd_entry(vm_last'.virt)} :
                ~Present(pt_mem, e) =>
                    /\ MemRead(pt_mem', e).lo = PF_PRESENT + PF_WRITABLE + PF_USER
                    /\ MemRead(pt_mem', e).nx = 0
                    /\ MemRead(pt_mem', e).hi = 0
          /\ MemRead(pt_mem', get_pt_entry(vm_last'.virt))
               = [nx |-> vm_last'.flags.nx, hi |-> 0,
                  pfn |-> vm_last'.phys \div PAGE_SIZE,
                  lo |-> PF_PRESENT + HardwareBits(vm_last'.flags.lo)]]_vars

\* a map_page asked for global + no-execute (and every other flag) of an
\* unaligned physical address has created the leaf table and succeeded
C32_Witness ==
    /\ vm_last.op = "map_page" /\ vm_last.ret = 0
    /\ vm_last.phys = 3146019
    /\ vm_last.flags = [nx |-> 1, lo |-> 511]
    /\ MemRead(pt_mem, get_pd_entry(vm_last.virt)).lo = PF_PRESENT + PF_WRITABLE + PF_USER
    /\ HasBit(MemRead(pt_mem, get_pt_entry(vm_last.virt)).lo, PF_GLOBAL)

\* C33: a map_page or unmap_page of one page leaves is_page_mapped and
\* virtual_to_physical of every other page as they were (the entries of
\* different pages being different words).
C33_MappingIsolation ==
    [][(vm_last'.op \in {"map_page", "unmap_page"} /\ UnmapStep) =>
          \A v2 \in VirtPages \ {vm_last'.virt - (vm_last'.virt % PAGE_SIZE)} :
              /\ is_page_mapped(pt_mem', v2) = is_page_mapped(pt_mem, v2)
              /\ virtual_to_physical(pt_mem', v2) = virtual_to_physical(pt_mem, v2)]_vars

\* C34: every frame of a successful mm_alloc_page or mm_alloc_pages(n) has an
\* index below total_pages, and mm_free_page of its address clears its bit.
C34_FramesBelowTotal ==
    [][(mm_last'.op \in {"mm_alloc_page", "mm_alloc_pages"} /\ mm_last'.ret # 0) =>
          \A f \in FramesOf(mm_last'.ret, mm_last'.n) :
              /\ f < total_pages'
              /\ ~bitmap_test(mm_free_page(MmState', f * PAGE_SIZE).bitmap, f)]_vars

\* header size + size, summed over the blocks of S that are not flagged Free
RECURSIVE UsedBytes(_, _)
UsedBytes(h, S) ==
    IF S = {} THEN 0
    ELSE Bind(Min(S), LAMBDA b :
            (IF HasFlag(blk_flags(h, b), BLOCK_FREE) THEN 0
             ELSE SizeofHeader + blk_size(h, b))
            + UsedBytes(h, S \ {b}))

\* C35: while only kmalloc, kfree and krealloc have been called, used_space is
\* the sum of header size + size over the blocks of the physical chain that are
\* not Free, and lies within 0..heap_size.
C35_HeapAccounting ==
    aligned_calls = 0 =>
        /\ used_space = UsedBytes(HeapState, ChainFrom(HeapState, heap_start))
        /\ used_space >= 0
        /\ used_space <= heap_size

\* C36: a map_page that returns -1 leaves every page-table entry and the frame
\* allocator (bitmap and used count, hence the free-frame count) as they were.
C36_FailedMapNoTrace ==
    [][(vm_last'.op = "map_page" /\ vm_last'.ret = -1 /\ UnmapStep) =>
          /\ pt_mem' = pt_mem
          /\ MmState' = MmState]_vars

\* C37: when krealloc(ptr, new_size), ptr an allocated block and new_size > 0,
\* returns NULL, the heap is as it was before the call: the block at ptr is
\* still allocated, with the size and the contents it had.
C37_FailedReallocKeepsBlock ==
    [][(/\ heap_last'.op = "krealloc" /\ heap_calls' # heap_calls
        /\ heap_last'.ptr # NULL /\ heap_last'.size > 0
        /\ heap_last'.ret = NULL /\ heap_halt' = ""
        /\ Allocated(HeapState, heap_last'.ptr - SizeofHeader)) =>
          /\ HeapState' = HeapState
          /\ Allocated(HeapState', heap_last'.ptr - SizeofHeader)
          /\ ksize(HeapState', heap_last'.ptr) = ksize(HeapState, heap_last'.ptr)]_vars

\* a krealloc to 4040 bytes of an allocated block has returned NULL because no
\* block was large enough
C37_Witness ==
    /\ heap_last.op = "krealloc" /\ heap_last.size = 4040
    /\ heap_last.ptr # NULL /\ heap_last.ret = NULL /\ heap_halt = ""
    /\ Allocated(HeapState, heap_last.ptr - SizeofHeader)
    /\ Cardinality(live) >= 2

\* mm_free_page(a), mm_free_page(a + PAGE_SIZE), ..., one call after the other
RECURSIVE FreeOneByOne(_, _, _)
FreeOneByOne(s, a, k) ==
    IF k = 0 THEN s
    ELSE mm_free_page(FreeOneByOne(s, a, k - 1), a + (k - 1) * PAGE_SIZE)

\* C38: after a = mm_alloc_pages(n) has succeeded, mm_free_pages(a, n) gives
\* back the bitmap and the counts of before the allocation, and has the effect
\* of n successive mm_free_page calls.
C38_AllocFreeRoundTrip ==
    [][(mm_last'.op = "mm_alloc_pages" /\ mm_last'.ret # 0) =>
          /\ mm_free_pages(MmState', mm_last'.ret, mm_last'.n) = MmState
          /\ mm_free_pages(MmState', mm_last'.ret, mm_last'.n)
               = FreeOneByOne(MmState', mm_last'.ret, mm_last'.n)]_vars

====
